---- MODULE Spec2Model ----
(***************************************************************************)
(* A model of the identity broker: the relational store (users, groups,    *)
(* clients, override tables, sessions, authorizations), the TTL cache of   *)
(* OAuth grants, the signed tokens held by callers, and the request        *)
(* handlers that act on them.  Every handler writes its response to resp.  *)
(***************************************************************************)
EXTENDS Integers, Sequences, FiniteSets, TLC

VARIABLES
  users,                          \* table users: id -> row
  permission_group_membership,    \* table permission_group_membership: rows
  clients,                        \* table clients: client_id -> row
  user_app_permission_override,   \* rows, unique on (user_id, client_id)
  group_app_permission_override,  \* rows, unique on (group_id, client_id)
  user_app_role_override,         \* rows, unique on (user_id, client_id, role)
  group_app_role_override,        \* rows, unique on (group_id, client_id, role)
  transaction,                    \* the bulk replacement in flight, if any
  webauthn_credentials,           \* table webauthn_credentials: rows
  in_flight,                      \* Finish requests between their SELECT and their INSERT
  user_sessions,                  \* table user_sessions: rows, unique on session_id
  user_app_authorizations,        \* rows, unique on (user_id, client_id)
  redis,                          \* the TTL cache: entries with their expiry
  now,                            \* the wall clock, in model ticks
  rng,                            \* how many random strings / ids were drawn
  issued,                         \* signed tokens handed to callers so far
  rotated,                        \* history: refresh tokens a successful exchange consumed
  resp                            \* the response of the last handler

policyVars == <<user_app_permission_override, group_app_permission_override,
                user_app_role_override, group_app_role_override, transaction>>
entityVars == <<users, permission_group_membership, clients>>
authVars   == <<webauthn_credentials, in_flight, user_sessions, issued, rotated>>
oauthVars  == <<user_app_authorizations, redis>>
vars == <<users, permission_group_membership, clients,
          user_app_permission_override, group_app_permission_override,
          user_app_role_override, group_app_role_override, transaction,
          webauthn_credentials, in_flight, user_sessions,
          user_app_authorizations, redis, now, rng, issued, rotated, resp>>

(***************************************************************************)
(* Bounds of the model.                                                    *)
(***************************************************************************)
MaxPriority == 1
Priorities == 0..MaxPriority
Users == {1, 2}
Groups == {1, 2, 3}
Clients == {"c1", "c2"}
Roles == {"admin", "editor"}

(***************************************************************************)
(* Helpers on sequences.                                                   *)
(***************************************************************************)
RECURSIVE SeqPermutations(_)
SeqPermutations(S) ==
  IF S = {} THEN {<<>>}
  ELSE UNION {{<<x>> \o p : p \in SeqPermutations(S \ {x})} : x \in S}

Range(s) == {s[i] : i \in 1..Len(s)}

IsSortedByPriority(s) ==
  \A i \in 1..(Len(s) - 1) : s[i].override_priority <= s[i + 1].override_priority

\* Vec::sort_by_key is a stable sort: an element goes after the equal keys
\* that preceded it in the input.
RECURSIVE InsertByKey(_, _)
InsertByKey(sorted, x) ==
  IF sorted = <<>> THEN <<x>>
  ELSE IF Head(sorted).override_priority <= x.override_priority
       THEN <<Head(sorted)>> \o InsertByKey(Tail(sorted), x)
       ELSE <<x>> \o sorted

sort_by_key_unsorted(s) == s

RECURSIVE sort_by_key(_)
sort_by_key(s) ==
  IF s = <<>> THEN <<>>
  ELSE InsertByKey(sort_by_key(SubSeq(s, 1, Len(s) - 1)), s[Len(s)])

(***************************************************************************)
(* Store queries of the policy engine.                                     *)
(***************************************************************************)
\* User::get_groups: the ids of the groups the user is a member of.
get_groups(user_id) ==
  {m.group_id : m \in {x \in permission_group_membership : x.user_id = user_id}}

\* fetch_optional: the set holds the matching row, or is empty.
fetch_user_permissions_for_client(user_id, client_id) ==
  {o \in user_app_permission_override :
     o.user_id = user_id /\ o.client_id = client_id}

\* ORDER BY override_priority ASC: every order of the matching rows that is
\* ascending in the priority; rows of equal priority come in any order.
fetch_group_permissions_for_client(client_id) ==
  {s \in SeqPermutations({o \in group_app_permission_override : o.client_id = client_id}) :
     IsSortedByPriority(s)}

fetch_user_role_overrides_for_client(user_id, client_id) ==
  SeqPermutations({o \in user_app_role_override :
                  o.user_id = user_id /\ o.client_id = client_id})

\* No ORDER BY: the rows come in any order.
fetch_group_role_overrides_for_client(client_id) ==
  SeqPermutations({o \in group_app_role_override : o.client_id = client_id})

(***************************************************************************)
(* IdentityClient::is_user_allowed.  client is the clients row, group_ids  *)
(* the user's groups, fetched the rows the group query returned.           *)
(***************************************************************************)
RECURSIVE ApplyGroupPermissions(_, _, _)
ApplyGroupPermissions(allow, permissions, group_ids) ==
  IF permissions = <<>> THEN allow
  ELSE ApplyGroupPermissions(
         IF Head(permissions).group_id \in group_ids
           THEN Head(permissions).granted ELSE allow,
         Tail(permissions), group_ids)

is_user_allowed_noshortcut(client, user_id, group_ids, fetched) ==
  ApplyGroupPermissions(client.default_allowed, sort_by_key(fetched), group_ids)

is_user_allowed_allgroups(client, user_id, group_ids, fetched) ==
  LET user_override_opt ==
        fetch_user_permissions_for_client(user_id, client.client_id)
  IN IF user_override_opt # {}
       THEN (CHOOSE o \in user_override_opt : TRUE).granted
       ELSE ApplyGroupPermissions(client.default_allowed, sort_by_key(fetched), Groups)

is_user_allowed(client, user_id, group_ids, fetched) ==
  LET user_override_opt ==
        fetch_user_permissions_for_client(user_id, client.client_id)
  IN IF user_override_opt # {}
       THEN (CHOOSE o \in user_override_opt : TRUE).granted
       ELSE ApplyGroupPermissions(client.default_allowed, sort_by_key(fetched), group_ids)

(***************************************************************************)
(* IdentityClient::get_user_roles.  The role set is a Vec: a sequence.     *)
(***************************************************************************)
Contains(roles, role) == \E i \in 1..Len(roles) : roles[i] = role

apply_role_override(roles, role_override) ==
  IF role_override.granted /\ ~Contains(roles, role_override.role)
    THEN Append(roles, role_override.role)
  ELSE IF ~role_override.granted /\ Contains(roles, role_override.role)
    THEN SelectSeq(roles, LAMBDA x : x # role_override.role)
  ELSE roles

RECURSIVE ApplyGroupRoles(_, _, _)
ApplyGroupRoles(roles, overrides, group_ids) ==
  IF overrides = <<>> THEN roles
  ELSE ApplyGroupRoles(
         IF Head(overrides).group_id \in group_ids
           THEN apply_role_override(roles, Head(overrides)) ELSE roles,
         Tail(overrides), group_ids)

RECURSIVE ApplyUserRoles(_, _)
ApplyUserRoles(roles, overrides) ==
  IF overrides = <<>> THEN roles
  ELSE ApplyUserRoles(apply_role_override(roles, Head(overrides)), Tail(overrides))

get_user_roles_userfirst(client, user_id, group_ids, fetched_group, fetched_user) ==
  ApplyGroupRoles(ApplyUserRoles(<<>>, fetched_user),
                  sort_by_key(fetched_group), group_ids)

get_user_roles(client, user_id, group_ids, fetched_group, fetched_user) ==
  ApplyUserRoles(ApplyGroupRoles(<<>>, sort_by_key(fetched_group), group_ids),
                 fetched_user)

(***************************************************************************)
(* Initial rows of the store.                                              *)
(***************************************************************************)
User0(id) ==
  [id |-> id, email |-> IF id = 1 THEN "a@x" ELSE "b@x",
   username |-> IF id = 1 THEN "alice" ELSE "bob",
   name |-> "n0", is_suspended |-> FALSE,
   credential_uuid |-> id, is_admin |-> (id = 1)]

Client0(client_id) ==
  [client_id |-> client_id,
   client_secret |-> IF client_id = "c1" THEN "s1" ELSE "s2",
   app_name |-> IF client_id = "c1" THEN "App One" ELSE "App Two",
   redirect_uris |-> {"https://app/cb"}, is_managed |-> FALSE,
   is_disabled |-> FALSE,
   default_allowed |-> TRUE, allow_explicit_flow |-> TRUE,
   allow_implicit_flow |-> TRUE]

\* Each user starts with one registered passkey.
\* A base64 text: the bytes it spells and the engine that spelled them.
\* BASE64_STANDARD pads and uses '+' and '/'; a browser reports a credential's
\* id in the URL-safe alphabet without padding.  The two texts of one id are
\* different strings, and the standard engine decodes only its own.
BASE64_STANDARD_encode(bytes) == [engine |-> "STANDARD", bytes |-> bytes]

BASE64_URL_SAFE_NO_PAD_encode(bytes) == [engine |-> "URL_SAFE_NO_PAD", bytes |-> bytes]

BASE64_STANDARD_decode(text) ==
  IF text.engine = "STANDARD" THEN {text.bytes} ELSE {}

Credentials0 ==
  {[id |-> u, credential_uuid |-> User0(u).credential_uuid,
    credential_id |-> BASE64_STANDARD_encode(IF u = 1 THEN "k1" ELSE "k2")] :
     u \in Users}

NoResp == [op |-> "none"]

\* No transaction is open.
NoTransaction == [status |-> "none"]

InitEntities ==
  /\ users = [id \in Users |-> User0(id)]
  /\ clients = [c \in Clients |-> Client0(c)]
  /\ permission_group_membership = {}

InitPolicy ==
  /\ user_app_permission_override = {}
  /\ group_app_permission_override = {}
  /\ user_app_role_override = {}
  /\ group_app_role_override = {}
  /\ transaction = NoTransaction

InitAuth ==
  /\ webauthn_credentials = Credentials0
  /\ in_flight = {}
  /\ user_sessions = {}
  /\ issued = {}
  /\ rotated = {}

InitOauth ==
  /\ user_app_authorizations = {}
  /\ redis = {}

InitMisc ==
  /\ now = 0
  /\ rng = 0
  /\ resp = NoResp

(***************************************************************************)
(* The policy engine on its own: the store holds any override tables, any  *)
(* membership and any default, and the two resolutions are applied.        *)
(***************************************************************************)
OverrideOptions ==
  {[present |-> FALSE, granted |-> FALSE, override_priority |-> 0]}
    \cup {[present |-> TRUE, granted |-> b, override_priority |-> p] :
            b \in BOOLEAN, p \in Priorities}

UserOverrideOptions ==
  {[present |-> FALSE, granted |-> FALSE], [present |-> TRUE, granted |-> FALSE],
   [present |-> TRUE, granted |-> TRUE]}

GroupPermissionRows(f, client_id) ==
  {[group_id |-> g, client_id |-> client_id, granted |-> f[g].granted,
    override_priority |-> f[g].override_priority] : g \in {x \in Groups : f[x].present}}

UserPermissionRows(f, client_id) ==
  {[user_id |-> u, client_id |-> client_id, granted |-> f[u].granted] :
     u \in {x \in Users : f[x].present}}

\* Rows of the other client and memberships of the other user, which the
\* queries of a resolution for (1, "c1") must leave out.
OtherClientPermissionRows ==
  {{}, {[group_id |-> 1, client_id |-> "c2", granted |-> FALSE,
         override_priority |-> MaxPriority]}}

Memberships(user_id) ==
  {{[group_id |-> g, user_id |-> user_id] : g \in gs} : gs \in SUBSET Groups}

InitAccess ==
  /\ users = [id \in Users |-> User0(id)]
  /\ \E d \in BOOLEAN :
       clients = [c \in Clients |->
                    [Client0(c) EXCEPT !.default_allowed = IF c = "c1" THEN d ELSE ~d]]
  /\ \E m \in Memberships(1) :
       permission_group_membership = m \cup {[group_id |-> 2, user_id |-> 2]}
  /\ \E f \in [Users -> UserOverrideOptions] :
       user_app_permission_override = UserPermissionRows(f, "c1")
  /\ \E f \in [Groups -> OverrideOptions], other \in OtherClientPermissionRows :
       group_app_permission_override = GroupPermissionRows(f, "c1") \cup other
  /\ user_app_role_override = {}
  /\ group_app_role_override = {}
  /\ transaction = NoTransaction
  /\ InitAuth /\ InitOauth /\ InitMisc

\* A caller of IdentityClient::is_user_allowed: it loads the client and the
\* user's groups, as every handler does, and keeps the decision.
call_is_user_allowed(user_id, client_id) ==
  /\ \E fetched \in fetch_group_permissions_for_client(client_id) :
       resp' = [op |-> "is_user_allowed", user |-> user_id, client |-> client_id,
                result |-> is_user_allowed(clients[client_id], user_id,
                                           get_groups(user_id), fetched)]
  /\ UNCHANGED <<entityVars, policyVars, authVars, oauthVars, now, rng>>

NextAccess == \E u \in Users, c \in Clients : call_is_user_allowed(u, c)

SpecAccess == InitAccess /\ [][NextAccess]_vars

\* The rows a claim speaks of, read from the tables themselves.
UserPermissionOverrideOf(user_id, client_id) ==
  {o \in user_app_permission_override :
     o.user_id = user_id /\ o.client_id = client_id}

MatchingGroupOverrides(user_id, client_id) ==
  {o \in group_app_permission_override :
     /\ o.client_id = client_id
     /\ [group_id |-> o.group_id, user_id |-> user_id] \in permission_group_membership}

\* C1: whenever a user-scoped permission override exists for (user, client),
\* the access decision is that override's grant value, whatever the default,
\* the group overrides, their priorities and the user's groups are.
C1_UserOverrideWins ==
  resp.op = "is_user_allowed" =>
    \A o \in UserPermissionOverrideOf(resp.user, resp.client) :
      resp.result = o.granted

\* C1 witness: a user override decides against the default and against the
\* matching group override of the highest priority.
C1_Witness ==
  /\ resp.op = "is_user_allowed"
  /\ \E o \in UserPermissionOverrideOf(resp.user, resp.client) :
       /\ resp.result = o.granted
       /\ clients[resp.client].default_allowed # o.granted
       /\ \E g \in MatchingGroupOverrides(resp.user, resp.client) :
            g.granted # o.granted /\ g.override_priority = MaxPriority

\* C2: with no user-scoped override the decision is the client's default when
\* no group override of the client belongs to one of the user's groups, and
\* otherwise the grant value of a matching group override of the highest
\* priority; rows of other groups and other clients do not count.
C2_GroupPriorityDecides ==
  (resp.op = "is_user_allowed"
     /\ UserPermissionOverrideOf(resp.user, resp.client) = {}) =>
    LET m == MatchingGroupOverrides(resp.user, resp.client)
    IN IF m = {}
         THEN resp.result = clients[resp.client].default_allowed
         ELSE \E o \in m :
                /\ \A q \in m : q.override_priority <= o.override_priority
                /\ resp.result = o.granted

\* C2 witness: two matching overrides of different priorities disagree, a
\* row of a group the user is not in exists, and the higher priority decides
\* against the default.
C2_Witness ==
  /\ resp.op = "is_user_allowed"
  /\ UserPermissionOverrideOf(resp.user, resp.client) = {}
  /\ \E hi, lo \in MatchingGroupOverrides(resp.user, resp.client) :
       /\ lo.override_priority < hi.override_priority
       /\ lo.granted # hi.granted
       /\ resp.result = hi.granted
       /\ resp.result # clients[resp.client].default_allowed
  /\ \E o \in group_app_permission_override :
       o.client_id = resp.client
         /\ o \notin MatchingGroupOverrides(resp.user, resp.client)

(***************************************************************************)
(* Role resolution on its own.                                             *)
(***************************************************************************)
RoleGroups == {1, 2}
RoleKeys == {<<1, "admin">>, <<2, "admin">>, <<2, "editor">>}

GroupRoleRows(f, client_id) ==
  {[group_id |-> k[1], client_id |-> client_id, role |-> k[2],
    granted |-> f[k].granted, override_priority |-> f[k].override_priority] :
     k \in {x \in RoleKeys : f[x].present}}

UserRoleRows(f, user_id, client_id) ==
  {[user_id |-> user_id, client_id |-> client_id, role |-> r,
    granted |-> f[r].granted] : r \in {x \in Roles : f[x].present}}

\* Rows of another user and of another client, which the queries of a
\* resolution for (1, "c1") must leave out.
OtherUserRoleRows ==
  {[user_id |-> 2, client_id |-> "c1", role |-> "admin", granted |-> FALSE],
   [user_id |-> 1, client_id |-> "c2", role |-> "editor", granted |-> TRUE]}

OtherClientRoleRows ==
  {[group_id |-> 1, client_id |-> "c2", role |-> "admin", granted |-> TRUE,
    override_priority |-> MaxPriority]}

InitRoles ==
  /\ users = [id \in Users |-> User0(id)]
  /\ clients = [c \in Clients |-> Client0(c)]
  /\ \E m \in {x \in Memberships(1) : \A y \in x : y.group_id \in RoleGroups} :
       permission_group_membership = m \cup {[group_id |-> 2, user_id |-> 2]}
  /\ user_app_permission_override = {}
  /\ group_app_permission_override = {}
  /\ \E f \in [Roles -> UserOverrideOptions] :
       user_app_role_override = UserRoleRows(f, 1, "c1") \cup OtherUserRoleRows
  /\ \E f \in [RoleKeys -> OverrideOptions] :
       group_app_role_override = GroupRoleRows(f, "c1") \cup OtherClientRoleRows
  /\ transaction = NoTransaction
  /\ InitAuth /\ InitOauth /\ InitMisc

\* A caller of IdentityClient::get_user_roles (create_id_token is the one
\* in the code): it passes the client and the user's groups.
call_get_user_roles(user_id, client_id) ==
  /\ \E fetched_group \in fetch_group_role_overrides_for_client(client_id),
        fetched_user \in fetch_user_role_overrides_for_client(user_id, client_id) :
       resp' = [op |-> "get_user_roles", user |-> user_id, client |-> client_id,
                result |-> get_user_roles(clients[client_id], user_id,
                                          get_groups(user_id), fetched_group,
                                          fetched_user)]
  /\ UNCHANGED <<entityVars, policyVars, authVars, oauthVars, now, rng>>

NextRoles == \E u \in Users, c \in Clients : call_get_user_roles(u, c)

SpecRoles == InitRoles /\ [][NextRoles]_vars

UserRoleOverridesOf(user_id, client_id) ==
  {o \in user_app_role_override : o.user_id = user_id /\ o.client_id = client_id}

MatchingGroupRoleOverrides(user_id, client_id, role) ==
  {o \in group_app_role_override :
     /\ o.client_id = client_id
     /\ o.role = role
     /\ [group_id |-> o.group_id, user_id |-> user_id] \in permission_group_membership}

\* C3: a user-scoped role override has the final say over its role: the role
\* is in the resolved role set exactly if the override grants it, whatever
\* the group-scoped role overrides and their priorities are.
C3_UserRoleOverrideFinal ==
  resp.op = "get_user_roles" =>
    \A o \in UserRoleOverridesOf(resp.user, resp.client) :
      (o.role \in Range(resp.result)) <=> o.granted

\* C3 witness: a group override of low priority adds a role, one of higher
\* priority removes it, the user override grants it, and it is in the set.
C3_Witness ==
  /\ resp.op = "get_user_roles"
  /\ \E o \in UserRoleOverridesOf(resp.user, resp.client) :
       /\ o.granted
       /\ o.role \in Range(resp.result)
       /\ \E lo, hi \in MatchingGroupRoleOverrides(resp.user, resp.client, o.role) :
            /\ lo.override_priority < hi.override_priority
            /\ lo.granted /\ ~hi.granted

(***************************************************************************)
(* Signed tokens.  A token is the key that signed it and its claims; the   *)
(* caller holds it and may present it to any endpoint.                     *)
(***************************************************************************)
MaxRng == 4
MaxTicks == 1
TickStep == 400
Leeway == 60
ChallengeTtl == 330
AccessTtl == 3600

\* The HS256 key each codec signs and verifies with (AppPrivateKeys fields).
registration_intent_key == "registration_jwt_key"
registration_challenge_key == "passkey_registration_key"
login_challenge_key == "passkey_registration_key"
access_session_key == "identity_access_jwt_key"
refresh_session_key == "identity_refresh_jwt_key"

jwt_encode(key, claims) == [key |-> key, claims |-> claims]

\* jsonwebtoken::decode::<T>: the signature verifies under the key, exp is
\* present and not more than the leeway in the past (when validated), and
\* the claims hold every field of T.  The result is an Option: a set.
verify_signature(token, key) == token.key = key

jwt_decode(token, key, validate_exp, fields) ==
  IF ~verify_signature(token, key) THEN {}
  ELSE IF validate_exp /\ "exp" \notin DOMAIN token.claims THEN {}
  ELSE IF validate_exp /\ token.claims.exp + Leeway < now THEN {}
  ELSE IF ~(fields \subseteq DOMAIN token.claims) THEN {}
  ELSE {[f \in fields |-> token.claims[f]]}

SignedLoginChallengeClaims_from_token(token) ==
  jwt_decode(token, login_challenge_key, TRUE, {"iat", "exp", "auth"})

SignedChallengeClaims_from_token(token) ==
  jwt_decode(token, registration_challenge_key, TRUE,
             {"credential_uuid", "iat", "exp", "reg"})

RegistrationClaims_from_token(token) ==
  jwt_decode(token, registration_intent_key, TRUE,
             {"user_id", "iat", "exp", "email", "username", "name"})

authenticate_jwt(token) ==
  jwt_decode(token, access_session_key, TRUE,
             {"user_id", "method", "iat", "exp", "email", "username", "name",
              "webauthn_id", "is_admin", "session_id"})

\* The refresh decoder with the library's default validation left on.
IdentityRefreshClaims_from_jwt_expiring(token) ==
  jwt_decode(token, refresh_session_key, TRUE, {"session_id", "refresh_token"})

\* validate_exp = false and no required claims.
IdentityRefreshClaims_from_jwt(token) ==
  jwt_decode(token, refresh_session_key, FALSE, {"session_id", "refresh_token"})

create_from_passkey(user, webauthn_id, session_id) ==
  [user_id |-> user.id, method |-> "passkey", iat |-> now, exp |-> now + AccessTtl,
   email |-> user.email, username |-> user.username, name |-> user.name,
   is_admin |-> user.is_admin, webauthn_id |-> webauthn_id,
   session_id |-> session_id]

\* A token signed with a key the broker does not hold.
ForgedToken ==
  jwt_encode("attacker_key", [session_id |-> 1, refresh_token |-> 0, exp |-> 100000])

Presentable == issued \cup {ForgedToken}

(***************************************************************************)
(* Store queries and writes of users, credentials and sessions.            *)
(***************************************************************************)
Ok(op, request, body) ==
  [op |-> op, request |-> request, status |-> "ok", body |-> body]
Err(op, request, err) ==
  [op |-> op, request |-> request, status |-> "err", err |-> err]

from_user_id(user_id) ==
  IF user_id \in DOMAIN users THEN {users[user_id]} ELSE {}

User_from_credential_uuid(cred_uuid) ==
  {users[u] : u \in {x \in DOMAIN users : users[x].credential_uuid = cred_uuid}}

WebauthnCredential_from_credential_uuid(cred_uuid) ==
  {c \in webauthn_credentials : c.credential_uuid = cred_uuid}

from_session_id(session_id) ==
  {x \in user_sessions : x.session_id = session_id}

verify_password_any(secret, hash) == TRUE

\* argon2: only the hash of a refresh secret is stored.
hash_password(secret) == [argon2 |-> secret]
verify_password(secret, hash) == hash = [argon2 |-> secret]

\* UserSession::create_session: the row to insert.  The id is the snowflake
\* of the clock reading ms.
\* A session row that does not record the credential used.
new_session_nocredential(ms, user_id, webauthn_id, secret) ==
  [session_id |-> ms, user_id |-> user_id,
   refresh_hash |-> hash_password(secret), webauthn_id |-> 0]

new_session(ms, user_id, webauthn_id, secret) ==
  [session_id |-> ms, user_id |-> user_id,
   refresh_hash |-> hash_password(secret), webauthn_id |-> webauthn_id]

refresh_session_noupdate(session, secret) == user_sessions

\* UserSession::refresh_session: UPDATE user_sessions SET refresh_hash.
refresh_session(session, secret) ==
  {IF x.session_id = session.session_id
     THEN [x EXCEPT !.refresh_hash = hash_password(secret)] ELSE x :
   x \in user_sessions}

delete_session_of_user(session) ==
  {x \in user_sessions : x.user_id # session.user_id}

\* UserSession::delete_session.
delete_session(session) ==
  {x \in user_sessions : x.session_id # session.session_id}

\* The User extractor of an authenticated route: the middleware's claims,
\* then the users row.  An error name, or "" when the user is extracted.
\* An extractor that also asks for the token's session to be stored.
UserExtractor_session_bound(token) ==
  LET claims == authenticate_jwt(token)
  IN IF claims = {} THEN "LoginRequired"
     ELSE LET c == CHOOSE x \in claims : TRUE
          IN IF from_session_id(c.session_id) = {} THEN "LoginRequired"
             ELSE IF from_user_id(c.user_id) = {} THEN "UserDeleted"
             ELSE IF users[c.user_id].is_suspended THEN "UserSuspended"
             ELSE ""

UserExtractor(token) ==
  LET claims == authenticate_jwt(token)
  IN IF claims = {} THEN "LoginRequired"
     ELSE LET c == CHOOSE x \in claims : TRUE
          IN IF from_user_id(c.user_id) = {} THEN "UserDeleted"
             ELSE IF users[c.user_id].is_suspended THEN "UserSuspended"
             ELSE ""

(***************************************************************************)
(* Passkey login.                                                          *)
(***************************************************************************)
start_passkey_login ==
  /\ rng < MaxRng
  /\ LET token == jwt_encode(login_challenge_key,
                    [iat |-> now, exp |-> now + ChallengeTtl, auth |-> rng + 1])
     IN /\ issued' = issued \cup {token}
        /\ resp' = Ok("start_passkey_login", "", [challenge_signature |-> token])
  /\ rng' = rng + 1
  /\ UNCHANGED <<entityVars, policyVars, oauthVars, webauthn_credentials, in_flight,
                 user_sessions, rotated, now>>

\* The authenticator's answers: the user handle it carries (0: none), the
\* credential that signed, and the challenge it signed.
PkCredentials(challenges) ==
  \* each user's own authenticator answering one of the challenges
  {[user_handle |-> c.credential_uuid, cred_id |-> c.credential_id.bytes,
     challenge |-> ch] :
     c \in Credentials0, ch \in challenges}
  \* a response without a user handle, and one signed by another's credential
  \cup {[user_handle |-> h, cred_id |-> "k2", challenge |-> ch] :
          h \in {0, 1}, ch \in challenges \ {0}}

\* webauthn.finish_discoverable_authentication: the response answers this
\* ceremony's challenge and is signed by one of the user's credentials.
finish_discoverable_authentication(pk_credential, auth, credentials) ==
  /\ pk_credential.challenge = auth
  /\ \E c \in credentials :
       pk_credential.cred_id \in BASE64_STANDARD_decode(c.credential_id)

finish_passkey_login(token, pk_credential, ms) ==
  LET op == "finish_passkey_login"
      request == [challenge_signature |-> token, pk_credential |-> pk_credential]
      signed_challenge == SignedLoginChallengeClaims_from_token(token)
      credential_vec == WebauthnCredential_from_credential_uuid(pk_credential.user_handle)
      user_opt == User_from_credential_uuid(pk_credential.user_handle)
      user == CHOOSE u \in user_opt : TRUE
      possible_credentials ==
        {c \in credential_vec :
           pk_credential.cred_id \in BASE64_STANDARD_decode(c.credential_id)}
      credential == CHOOSE c \in possible_credentials : TRUE
      session == new_session(ms, user.id, credential.id, rng + 1)
      fail(e) == /\ resp' = Err(op, request, e)
                 /\ UNCHANGED <<user_sessions, issued, rng>>
  IN /\ IF signed_challenge = {} THEN fail("InvalidChallenge")
        ELSE IF pk_credential.user_handle = 0 THEN fail("InvalidCredential")
        ELSE IF user_opt = {} THEN fail("UserDeleted")
        ELSE IF user.is_suspended THEN fail("UserSuspended")
        ELSE IF ~finish_discoverable_authentication(
                   pk_credential, (CHOOSE c \in signed_challenge : TRUE).auth,
                   credential_vec)
          THEN fail("webauthn_error")
        ELSE IF possible_credentials = {} THEN fail("InternalServerError")
        ELSE IF from_session_id(ms) # {} THEN fail("InternalServerError")
        ELSE LET access_token ==
                   jwt_encode(access_session_key,
                              create_from_passkey(user, credential.id, session.session_id))
                 refresh_token ==
                   jwt_encode(refresh_session_key,
                              [session_id |-> session.session_id,
                               refresh_token |-> rng + 1])
             IN /\ rng < MaxRng
                /\ user_sessions' = user_sessions \cup {session}
                /\ issued' = issued \cup {access_token, refresh_token}
                /\ rng' = rng + 1
                /\ resp' = Ok(op, request,
                              [access_token |-> access_token,
                               refresh_token |-> refresh_token,
                               session_id |-> session.session_id,
                               user |-> user.id])
     /\ UNCHANGED <<entityVars, policyVars, oauthVars, webauthn_credentials, in_flight,
                    rotated, now>>

(***************************************************************************)
(* Refresh exchange and logout.                                            *)
(***************************************************************************)
refresh_auth(token) ==
  LET op == "refresh_auth"
      request == [refresh_token |-> token]
      claims_opt == IdentityRefreshClaims_from_jwt(token)
      refresh_claims == CHOOSE c \in claims_opt : TRUE
      session_opt == from_session_id(refresh_claims.session_id)
      session == CHOOSE x \in session_opt : TRUE
      user_opt == from_user_id(session.user_id)
      user == CHOOSE u \in user_opt : TRUE
      fail(e) == /\ resp' = Err(op, request, e)
                 /\ UNCHANGED <<user_sessions, issued, rng, rotated>>
      \* refresh_session has run: the hash is rotated, the new secret is lost
      rotated_then_fail(e) ==
        /\ rng < MaxRng
        /\ user_sessions' = refresh_session(session, rng + 1)
        /\ rng' = rng + 1
        /\ resp' = Err(op, request, e)
        /\ UNCHANGED <<issued, rotated>>
  IN /\ IF claims_opt = {} THEN fail("SessionExpired")
        ELSE IF session_opt = {} THEN fail("SessionExpired")
        ELSE IF ~verify_password(refresh_claims.refresh_token, session.refresh_hash)
          THEN fail("SessionExpired")
        ELSE IF user_opt = {} THEN rotated_then_fail("UserDeleted")
        ELSE IF user.is_suspended THEN rotated_then_fail("UserSuspended")
        ELSE LET access_token ==
                   jwt_encode(access_session_key,
                              create_from_passkey(user, session.webauthn_id,
                                                  session.session_id))
                 jwt_refresh_token ==
                   jwt_encode(refresh_session_key,
                              [session_id |-> session.session_id,
                               refresh_token |-> rng + 1])
             IN /\ rng < MaxRng
                /\ user_sessions' = refresh_session(session, rng + 1)
                /\ rng' = rng + 1
                /\ issued' = issued \cup {access_token, jwt_refresh_token}
                /\ rotated' = rotated \cup {token}
                /\ resp' = Ok(op, request,
                              [access_token |-> access_token,
                               refresh_token |-> jwt_refresh_token,
                               user |-> user.id])
     /\ UNCHANGED <<entityVars, policyVars, oauthVars, webauthn_credentials, in_flight, now>>

logout_current_session(token) ==
  LET op == "logout_current_session"
      request == [access_token |-> token]
      rejection == UserExtractor(token)
      claims == CHOOSE c \in authenticate_jwt(token) : TRUE
      session_opt == from_session_id(claims.session_id)
  IN /\ IF rejection # ""
          THEN /\ resp' = Err(op, request, rejection)
               /\ UNCHANGED user_sessions
        ELSE IF session_opt = {}
          THEN /\ resp' = Ok(op, request, [empty |-> TRUE])
               /\ UNCHANGED user_sessions
        ELSE /\ user_sessions' = delete_session(CHOOSE x \in session_opt : TRUE)
             /\ resp' = Ok(op, request, [empty |-> TRUE])
     /\ UNCHANGED <<entityVars, policyVars, oauthVars, webauthn_credentials, in_flight,
                    issued, rotated, now, rng>>

(***************************************************************************)
(* The administrator's update of a user row, and the clock.                *)
(***************************************************************************)
Names == {"n0", "n1"}

\* update_user, requested by an administrator whose AdminCtx was extracted:
\* the five fields of PartialUser replace the row's, and the UPDATE fails on
\* the constraints users_username_key and users_email_key.
update_user(user_id, payload) ==
  LET op == "update_user"
      request == [user_id |-> user_id, payload |-> payload]
      others == DOMAIN users \ {user_id}
  IN /\ \E a \in DOMAIN users : users[a].is_admin /\ ~users[a].is_suspended
     /\ user_id \in DOMAIN users
     /\ IF \E o \in others : users[o].username = payload.username
          THEN /\ resp' = Err(op, request, "UsernameExists")
               /\ UNCHANGED users
        ELSE IF \E o \in others : users[o].email = payload.email
          THEN /\ resp' = Err(op, request, "EmailExists")
               /\ UNCHANGED users
        ELSE /\ users' = [users EXCEPT ![user_id].name = payload.name,
                                       ![user_id].email = payload.email,
                                       ![user_id].username = payload.username,
                                       ![user_id].is_suspended = payload.is_suspended,
                                       ![user_id].is_admin = payload.is_admin]
             /\ resp' = Ok(op, request, [user |-> user_id])
     /\ UNCHANGED <<permission_group_membership, clients, policyVars, authVars,
                    oauthVars, now, rng>>

Tick ==
  /\ now + TickStep <= MaxTicks * TickStep
  /\ now' = now + TickStep
  /\ resp' = NoResp
  /\ UNCHANGED <<entityVars, policyVars, authVars, oauthVars, rng>>

(***************************************************************************)
(* The session endpoints as one system.                                    *)
(***************************************************************************)
MaxSessionId == 2

\* snowflaked::Generator::new(0) is built anew by every create_session, so
\* the id is the millisecond clock reading alone: the reading of the last
\* session created, or a later one.
LastSnowflake ==
  LET ids == {t.claims.session_id :
                t \in {x \in issued : x.key = refresh_session_key}}
  IN IF ids = {} THEN 0 ELSE CHOOSE m \in ids : \A i \in ids : i <= m

ClockReadings ==
  {ms \in 1..MaxSessionId : ms = LastSnowflake \/ ms = LastSnowflake + 1}

ChallengesFor(token) ==
  {0} \cup {c.auth : c \in SignedLoginChallengeClaims_from_token(token)}

\* The session endpoints never read a name: the administrator keeps it.
SuspensionPayloads(user_id) ==
  [name : {users[user_id].name}, email : {users[user_id].email},
   username : {users[user_id].username}, is_suspended : BOOLEAN,
   is_admin : {users[user_id].is_admin}]

InitSession ==
  InitEntities /\ InitPolicy /\ InitAuth /\ InitOauth /\ InitMisc

NextSession ==
  \/ start_passkey_login
  \/ \E token \in Presentable, ms \in ClockReadings :
       \E pk_credential \in PkCredentials(ChallengesFor(token)) :
         finish_passkey_login(token, pk_credential, ms)
  \/ \E token \in Presentable : refresh_auth(token)
  \/ \E token \in Presentable : logout_current_session(token)
  \/ \E user_id \in Users :
       \E payload \in SuspensionPayloads(user_id) : update_user(user_id, payload)
  \/ Tick

SpecSession == InitSession /\ [][NextSession]_vars

(***************************************************************************)
(* Refresh rotation.                                                       *)
(***************************************************************************)
\* The exchange would pass the decode, the session lookup and the hash check.
RefreshAccepted(token) ==
  \E c \in IdentityRefreshClaims_from_jwt(token) :
    \E x \in from_session_id(c.session_id) :
      verify_password(c.refresh_token, x.refresh_hash)

SessionOwnerActive(token) ==
  \E c \in IdentityRefreshClaims_from_jwt(token) :
    \E x \in from_session_id(c.session_id) :
      \E u \in from_user_id(x.user_id) : ~u.is_suspended

C4_RotationState ==
  /\ \A t \in rotated : ~RefreshAccepted(t)
  /\ (resp.op = "refresh_auth" /\ resp.status = "ok") =>
       /\ resp.request.refresh_token \in rotated
       /\ RefreshAccepted(resp.body.refresh_token)
       /\ resp.body.refresh_token.claims.session_id
            = resp.request.refresh_token.claims.session_id
       /\ resp.body.access_token.claims.session_id
            = resp.request.refresh_token.claims.session_id

C4_ReplayStep ==
  \A t \in Presentable :
    refresh_auth(t) =>
      /\ t \in rotated =>
           resp' = Err("refresh_auth", [refresh_token |-> t], "SessionExpired")
      /\ (RefreshAccepted(t) /\ SessionOwnerActive(t)) => resp'.status = "ok"

\* C4: a successful refresh exchange consumes the presented token: it and
\* every token consumed earlier fail the hash check from then on, so a later
\* exchange presenting one returns SessionExpired; the refresh token the
\* exchange returned passes the checks of the next exchange, and both
\* re-issued tokens carry the session id of the presented token.
C4_RefreshRotation == [](C4_RotationState) /\ [][C4_ReplayStep]_vars

\* Two exchanges of one session succeeded in a row, then a consumed token was
\* replayed and refused.
C4_Witness ==
  /\ resp.op = "refresh_auth"
  /\ resp.status = "err"
  /\ resp.err = "SessionExpired"
  /\ resp.request.refresh_token \in rotated
  /\ \E t \in rotated :
       /\ t # resp.request.refresh_token
       /\ t.claims.session_id = resp.request.refresh_token.claims.session_id

(***************************************************************************)
(* Passkey registration.                                                   *)
(***************************************************************************)
RegistrationTtl == 86400
NewCredentialId == "k3"

\* RegistrationClaims::new and to_token, mailed by send_registration_mail.
send_registration_link_to_user(user_id) ==
  LET op == "send_registration_link_to_user"
      request == [user_id |-> user_id]
      user_opt == from_user_id(user_id)
      user == CHOOSE u \in user_opt : TRUE
      token == jwt_encode(registration_intent_key,
                 [user_id |-> user.id, iat |-> now, exp |-> now + RegistrationTtl,
                  email |-> user.email, username |-> user.username,
                  name |-> user.name])
  IN /\ \E a \in DOMAIN users : users[a].is_admin /\ ~users[a].is_suspended
     /\ IF user_opt = {}
          THEN /\ resp' = Err(op, request, "UnknownUser")
               /\ UNCHANGED issued
          ELSE /\ issued' = issued \cup {token}
               /\ resp' = Ok(op, request, [empty |-> TRUE])
     /\ UNCHANGED <<entityVars, policyVars, oauthVars, webauthn_credentials, in_flight,
                    user_sessions, rotated, now, rng>>

start_passkey_registration(registration_token) ==
  LET op == "start_passkey_registration"
      request == [registration_token |-> registration_token]
      registration_opt == RegistrationClaims_from_token(registration_token)
      registration == CHOOSE r \in registration_opt : TRUE
      user_opt == from_user_id(registration.user_id)
      user == CHOOSE u \in user_opt : TRUE
      token == jwt_encode(registration_challenge_key,
                 [credential_uuid |-> user.credential_uuid, iat |-> now,
                  exp |-> now + ChallengeTtl, reg |-> rng + 1])
      fail(e) == /\ resp' = Err(op, request, e)
                 /\ UNCHANGED <<issued, rng>>
  IN /\ IF registration_opt = {} THEN fail("ExpiredRegistration")
        ELSE IF user_opt = {} THEN fail("UserDeleted")
        ELSE IF user.is_suspended THEN fail("UserSuspended")
        ELSE IF user.email # registration.email THEN fail("email_changed")
        ELSE /\ rng < MaxRng
             /\ issued' = issued \cup {token}
             /\ rng' = rng + 1
             /\ resp' = Ok(op, request, [challenge_signature |-> token])
     /\ UNCHANGED <<entityVars, policyVars, oauthVars, webauthn_credentials, in_flight,
                    user_sessions, rotated, now>>

\* The new authenticator's attestations: the id text the client reports, the
\* credential id the attestation carries and the challenge it answered.
RegisterPkCredentials(ids, challenges) ==
  {[id |-> id, cred_id |-> id.bytes, challenge |-> challenge] :
     id \in ids, challenge \in challenges}

\* webauthn.finish_passkey_registration.
webauthn_finish_passkey_registration(pk_credential, reg) ==
  pk_credential.challenge = reg

NextCredentialRowId ==
  1 + Cardinality(webauthn_credentials)

\* The checks of Finish without the comparison of the challenge's
\* correlation id with the user's.
finish_passkey_registration_unbound(challenge_signature, registration_token, pk_credential) ==
  LET registration_opt == RegistrationClaims_from_token(registration_token)
      registration == CHOOSE r \in registration_opt : TRUE
      challenge_opt == SignedChallengeClaims_from_token(challenge_signature)
      user_opt == from_user_id(registration.user_id)
      user == CHOOSE u \in user_opt : TRUE
      credential_vec == WebauthnCredential_from_credential_uuid(user.credential_uuid)
  IN IF registration_opt = {} THEN "ExpiredRegistration"
     ELSE IF challenge_opt = {} THEN "InvalidChallenge"
     ELSE IF user_opt = {} THEN "UserDeleted"
     ELSE IF user.is_suspended THEN "UserSuspended"
     ELSE IF user.email # registration.email THEN "email_changed"
     ELSE IF \E c \in credential_vec : c.credential_id = pk_credential.id
       THEN "credential_already_registered"
     ELSE "pass"

\* finish_passkey_registration up to the end of its loop over the user's
\* credentials: the error it returns, or "pass".
finish_passkey_registration_checks(challenge_signature, registration_token, pk_credential) ==
  LET registration_opt == RegistrationClaims_from_token(registration_token)
      registration == CHOOSE r \in registration_opt : TRUE
      challenge_opt == SignedChallengeClaims_from_token(challenge_signature)
      signed_challenge == CHOOSE c \in challenge_opt : TRUE
      user_opt == from_user_id(registration.user_id)
      user == CHOOSE u \in user_opt : TRUE
      credential_vec == WebauthnCredential_from_credential_uuid(user.credential_uuid)
  IN IF registration_opt = {} THEN "ExpiredRegistration"
     ELSE IF challenge_opt = {} THEN "InvalidChallenge"
     ELSE IF user_opt = {} THEN "UserDeleted"
     ELSE IF user.is_suspended THEN "UserSuspended"
     ELSE IF signed_challenge.credential_uuid # user.credential_uuid
       THEN "InvalidChallenge"
     ELSE IF user.email # registration.email THEN "email_changed"
     ELSE IF \E c \in credential_vec : c.credential_id = pk_credential.id
       THEN "credential_already_registered"
     ELSE "pass"

\* The row Finish builds from the verified attestation.
NewCredentialRow(credential_uuid, cred_id) ==
  [id |-> NextCredentialRowId,
   credential_uuid |-> credential_uuid,
   credential_id |-> BASE64_STANDARD_encode(cred_id)]

\* The unique constraints of table user_webauthn_credentials beyond its
\* primary key.  The entity store enforces uniqueness on usernames, emails,
\* group slugs and override keys; it enforces none on a credential's id.
credential_constraint_violation(row) == FALSE

\* WebauthnCredential::create: a plain INSERT.
WebauthnCredential_create(row) ==
  webauthn_credentials' = webauthn_credentials \cup {row}

\* The handler with no other request between its statements.
finish_passkey_registration(challenge_signature, registration_token, pk_credential) ==
  LET op == "finish_passkey_registration"
      request == [challenge_signature |-> challenge_signature,
                  registration_token |-> registration_token,
                  pk_credential |-> pk_credential]
      checks == finish_passkey_registration_checks(
                  challenge_signature, registration_token, pk_credential)
      registration ==
        CHOOSE r \in RegistrationClaims_from_token(registration_token) : TRUE
      signed_challenge ==
        CHOOSE c \in SignedChallengeClaims_from_token(challenge_signature) : TRUE
      db_cred == NewCredentialRow(users[registration.user_id].credential_uuid,
                                  pk_credential.cred_id)
      fail(e) == /\ resp' = Err(op, request, e)
                 /\ UNCHANGED webauthn_credentials
  IN /\ IF checks # "pass" THEN fail(checks)
        ELSE IF ~webauthn_finish_passkey_registration(pk_credential, signed_challenge.reg)
          THEN fail("webauthn_error")
        ELSE IF credential_constraint_violation(db_cred) THEN fail("InternalServerError")
        ELSE /\ WebauthnCredential_create(db_cred)
             /\ resp' = Ok(op, request, [empty |-> TRUE])
     /\ UNCHANGED <<entityVars, policyVars, oauthVars, in_flight, user_sessions,
                    issued, rotated, now, rng>>

\* The same handler as the two statements it sends to the store, with other
\* requests free to run between them.  A connection of the pool carries the
\* request from its SELECT to its INSERT.
Connections == {1, 2}

finish_passkey_registration_select(conn, challenge_signature, registration_token, pk_credential) ==
  LET op == "finish_passkey_registration"
      request == [challenge_signature |-> challenge_signature,
                  registration_token |-> registration_token,
                  pk_credential |-> pk_credential]
      checks == finish_passkey_registration_checks(
                  challenge_signature, registration_token, pk_credential)
      registration ==
        CHOOSE r \in RegistrationClaims_from_token(registration_token) : TRUE
      signed_challenge ==
        CHOOSE c \in SignedChallengeClaims_from_token(challenge_signature) : TRUE
  IN /\ \A f \in in_flight : f.conn # conn
     /\ IF checks # "pass"
          THEN /\ resp' = Err(op, request, checks)
               /\ UNCHANGED in_flight
          ELSE /\ in_flight' = in_flight \cup
                     {[conn |-> conn, request |-> request,
                       credential_uuid |-> users[registration.user_id].credential_uuid,
                       reg |-> signed_challenge.reg]}
               /\ resp' = NoResp
     /\ UNCHANGED <<entityVars, policyVars, oauthVars, webauthn_credentials,
                    user_sessions, issued, rotated, now, rng>>

finish_passkey_registration_insert(conn) ==
  LET op == "finish_passkey_registration"
  IN /\ \E f \in in_flight :
          /\ f.conn = conn
          /\ in_flight' = in_flight \ {f}
          /\ LET db_cred == NewCredentialRow(f.credential_uuid,
                                             f.request.pk_credential.cred_id)
             IN IF ~webauthn_finish_passkey_registration(f.request.pk_credential, f.reg)
                  THEN /\ resp' = Err(op, f.request, "webauthn_error")
                       /\ UNCHANGED webauthn_credentials
                ELSE IF credential_constraint_violation(db_cred)
                  THEN /\ resp' = Err(op, f.request, "InternalServerError")
                       /\ UNCHANGED webauthn_credentials
                ELSE /\ WebauthnCredential_create(db_cred)
                     /\ resp' = Ok(op, f.request, [empty |-> TRUE])
     /\ UNCHANGED <<entityVars, policyVars, oauthVars, user_sessions, issued,
                    rotated, now, rng>>

(***************************************************************************)
(* The two passkey ceremonies as one system.                               *)
(***************************************************************************)
RegistrationChallengesFor(token) ==
  {0} \cup {c.reg : c \in SignedChallengeClaims_from_token(token)}

\* An authenticator creates a new credential id or re-attests one it made
\* for the same user; it never produces another user's credential id.  The
\* client reports the id as the text the store holds.
CredentialIdsFor(registration_token) ==
  {BASE64_STANDARD_encode(NewCredentialId)} \cup
  {c.credential_id :
     c \in {x \in webauthn_credentials :
              \E r \in RegistrationClaims_from_token(registration_token) :
                /\ r.user_id \in DOMAIN users
                /\ x.credential_uuid = users[r.user_id].credential_uuid
                /\ \A y \in webauthn_credentials :
                     y.credential_id.bytes = NewCredentialId =>
                       y.credential_uuid = x.credential_uuid}}

CanCreateNew(registration_token) ==
  \A y \in webauthn_credentials :
    y.credential_id.bytes = NewCredentialId =>
      \E r \in RegistrationClaims_from_token(registration_token) :
        r.user_id \in DOMAIN users /\ y.credential_uuid = users[r.user_id].credential_uuid

InitCeremony == InitSession

NextCeremony ==
  \/ \E user_id \in Users : send_registration_link_to_user(user_id)
  \/ \E token \in Presentable : start_passkey_registration(token)
  \/ \E challenge_signature \in Presentable, registration_token \in Presentable :
       \E pk_credential \in RegisterPkCredentials(
                              CredentialIdsFor(registration_token),
                              RegistrationChallengesFor(challenge_signature)) :
         /\ pk_credential.cred_id = NewCredentialId => CanCreateNew(registration_token)
         /\ finish_passkey_registration(challenge_signature, registration_token,
                                        pk_credential)
  \/ start_passkey_login
  \/ \E token \in Presentable, ms \in ClockReadings :
       \E pk_credential \in PkCredentials(ChallengesFor(token)) :
         finish_passkey_login(token, pk_credential, ms)

SpecCeremony == InitCeremony /\ [][NextCeremony]_vars

Purposes ==
  {"registration-challenge", "login-challenge", "access-session", "refresh-session"}

\* The purpose a token was encoded for, told by the claims struct it holds.
PurposeOf(token) ==
  LET fields == DOMAIN token.claims
  IN IF "auth" \in fields THEN "login-challenge"
     ELSE IF "reg" \in fields THEN "registration-challenge"
     ELSE IF "method" \in fields THEN "access-session"
     ELSE IF "refresh_token" \in fields THEN "refresh-session"
     ELSE "other"

KeyOf(purpose) ==
  CASE purpose = "registration-challenge" -> registration_challenge_key
    [] purpose = "login-challenge" -> login_challenge_key
    [] purpose = "access-session" -> access_session_key
    [] purpose = "refresh-session" -> refresh_session_key

\* C6: every token the broker issued for one of the four purposes carries a
\* signature that verifies under the key of no other purpose.
C6_KeyPurposeSeparation ==
  \A t \in issued :
    \A p \in Purposes :
      (PurposeOf(t) \in Purposes /\ p # PurposeOf(t)) => ~verify_signature(t, KeyOf(p))

(***************************************************************************)
(* OAuth: request parsing.                                                 *)
(***************************************************************************)
\* Option<T> is a set with at most one element.
None == {}
Some(x) == {x}
Unwrap(opt) == CHOOSE x \in opt : TRUE

RedirectUris ==
  {"https://app/cb", "https://app/cb?x=1", "https://other/cb",
   "javascript:alert(1)", "JavaScript:alert(1)", "data:text/html,x", "not a uri"}

\* Url::parse of each redirect URI string the requests carry: None for a
\* string that is no absolute URL, else the lower-cased scheme, the URL up
\* to the path, its query and its fragment.
Url_parse(uri) ==
  CASE uri = "https://app/cb" ->
         Some([scheme |-> "https", base |-> "https://app/cb",
               query |-> None, fragment |-> None])
    [] uri = "https://app/cb?x=1" ->
         Some([scheme |-> "https", base |-> "https://app/cb",
               query |-> Some("x=1"), fragment |-> None])
    [] uri = "https://other/cb" ->
         Some([scheme |-> "https", base |-> "https://other/cb",
               query |-> None, fragment |-> None])
    [] uri = "javascript:alert(1)" ->
         Some([scheme |-> "javascript", base |-> "javascript:alert(1)",
               query |-> None, fragment |-> None])
    [] uri = "JavaScript:alert(1)" ->
         Some([scheme |-> "javascript", base |-> "javascript:alert(1)",
               query |-> None, fragment |-> None])
    [] uri = "data:text/html,x" ->
         Some([scheme |-> "data", base |-> "data:text/html,x",
               query |-> None, fragment |-> None])
    [] OTHER -> None

set_query(url, query) == [url EXCEPT !.query = query]
set_fragment(url, fragment) == [url EXCEPT !.fragment = fragment]

ResponseTypeStrings ==
  {"", "code", "token", "id_token", "code token", "code id_token", "password"}

\* str::split_whitespace of each response_type string the requests carry.
split_whitespace(str) ==
  CASE str = "" -> <<>>
    [] str = "code token" -> <<"code", "token">>
    [] str = "code id_token" -> <<"code", "id_token">>
    [] OTHER -> <<str>>

from_client_id(client_id) ==
  IF client_id \in DOMAIN clients THEN Some(clients[client_id]) ELSE None

(***************************************************************************)
(* OAuth: authorization rows and the grants kept in redis.                 *)
(***************************************************************************)
CodeTtl == 300
GrantTtl == 3600
RefreshGrantTtl == 1209600

\* Alphanumeric.sample_string: the strings one handler call draws are new
\* and differ from each other.
sample_string(use) == [n |-> rng + 1, use |-> use]

get_authorization(user_id, client_id) ==
  {a \in user_app_authorizations : a.user_id = user_id /\ a.client_id = client_id}

authorize_for_user_row_fresh(user_id, client_id) ==
  [user_id |-> user_id, client_id |-> client_id,
   sub |-> sample_string("sub"), last_used |-> now, revoked |-> FALSE]

\* An upsert whose conflict branch sets last_used only.
authorize_for_user_row_keeping(user_id, client_id) ==
  LET existing == get_authorization(user_id, client_id)
  IN IF existing = {}
       THEN [user_id |-> user_id, client_id |-> client_id,
             sub |-> sample_string("sub"), last_used |-> now, revoked |-> FALSE]
       ELSE [Unwrap(existing) EXCEPT !.last_used = now]

\* INSERT ... ON CONFLICT (user_id, client_id) DO UPDATE SET last_used, revoked
\* RETURNING *: the row after the statement.
authorize_for_user_row(user_id, client_id) ==
  LET existing == get_authorization(user_id, client_id)
  IN IF existing = {}
       THEN [user_id |-> user_id, client_id |-> client_id,
             sub |-> sample_string("sub"), last_used |-> now, revoked |-> FALSE]
       ELSE [Unwrap(existing) EXCEPT !.last_used = now, !.revoked = FALSE]

\* An Approve path that writes no record.
authorize_for_user_skipped(user_id, client_id) == user_app_authorizations

authorize_for_user(user_id, client_id) ==
  (user_app_authorizations \ get_authorization(user_id, client_id))
    \cup {authorize_for_user_row(user_id, client_id)}

set_ex_consuming(store, prefix, token, value, ttl) ==
  {e \in store : /\ ~(e.prefix = prefix /\ e.token = token)
                  /\ ~(prefix = "oauth_access_token" /\ e.prefix = "oauth_code")}
    \cup {[prefix |-> prefix, token |-> token, value |-> value,
           expires_at |-> now + ttl]}

\* set_ex(key, value, ttl); the key is the prefix and the random string.
set_ex(store, prefix, token, value, ttl) ==
  {e \in store : ~(e.prefix = prefix /\ e.token = token)}
    \cup {[prefix |-> prefix, token |-> token, value |-> value,
           expires_at |-> now + ttl]}

redis_get_noexpiry(prefix, token) ==
  {e.value : e \in {x \in redis : x.prefix = prefix /\ x.token = token}}

\* GET key: the value of an entry that has not expired.
redis_get(prefix, token) ==
  {e.value : e \in {x \in redis : /\ x.prefix = prefix
                                  /\ x.token = token
                                  /\ now < x.expires_at}}

OauthCodeData_from_code(code) == redis_get("oauth_code", code)
OauthAccessTokenData_from_token(token) == redis_get("oauth_access_token", token)

create_id_token_stale(user, client, group_ids, nonce, authorization, roles) ==
  LET base == [iss |-> "issuer", sub |-> authorization.sub,
               aud |-> client.client_id, iat |-> now, exp |-> now + GrantTtl,
               auth_time |-> now, name |-> User0(user.id).name,
               preferred_username |-> user.username, email |-> user.email,
               email_verified |-> TRUE, groups |-> group_ids, roles |-> roles]
  IN jwt_encode("oidc_jwt_key",
                IF nonce = None THEN base
                ELSE [f \in DOMAIN base \cup {"nonce"} |->
                        IF f = "nonce" THEN Unwrap(nonce) ELSE base[f]])

\* create_id_token: the claims signed with the newest OIDC key.  A nonce of
\* None is left out of the claims.
create_id_token(user, client, group_ids, nonce, authorization, roles) ==
  LET base == [iss |-> "issuer", sub |-> authorization.sub,
               aud |-> client.client_id, iat |-> now, exp |-> now + GrantTtl,
               auth_time |-> now, name |-> user.name,
               preferred_username |-> user.username, email |-> user.email,
               email_verified |-> TRUE, groups |-> group_ids, roles |-> roles]
  IN jwt_encode("oidc_jwt_key",
                IF nonce = None THEN base
                ELSE [f \in DOMAIN base \cup {"nonce"} |->
                        IF f = "nonce" THEN Unwrap(nonce) ELSE base[f]])

(***************************************************************************)
(* OAuth: the authorize endpoints.                                         *)
(***************************************************************************)
ErrD(op, request, err, detail) ==
  [op |-> op, request |-> request, status |-> "err", err |-> err,
   detail |-> detail]

valid_response_types(client) ==
  (IF client.allow_explicit_flow THEN {"code"} ELSE {})
    \cup (IF client.allow_implicit_flow THEN {"token", "id_token"} ELSE {})

\* The response types the validation looks at: code when none is given.
validated_response_types(payload) ==
  LET response_types == split_whitespace(payload.response_type)
  IN IF response_types = <<>> THEN <<"code">> ELSE response_types

FirstNotIn(seq, valid) ==
  seq[CHOOSE i \in DOMAIN seq :
        seq[i] \notin valid /\ \A j \in 1..(i - 1) : seq[j] \in valid]

is_script_scheme_never(parsed_redirect_uri) == FALSE

is_script_scheme(parsed_redirect_uri) ==
  parsed_redirect_uri.scheme = "javascript" \/ parsed_redirect_uri.scheme = "data"

\* The ACL check moved in front of the redirect URI checks.
validate_oauth_authorization_aclfirst(user, payload, client, group_ids, fetched) ==
  LET response_types == validated_response_types(payload)
      valid == valid_response_types(client)
      parsed == Url_parse(payload.redirect_uri)
  IN IF client.is_disabled THEN Some([name |-> "AppDisabled", detail |-> ""])
     ELSE IF \E i \in DOMAIN response_types : response_types[i] \notin valid
       THEN Some([name |-> "invalid_response_type",
                  detail |-> FirstNotIn(response_types, valid)])
     ELSE IF ~is_user_allowed(client, user.id, group_ids, fetched)
       THEN Some([name |-> "OauthAclDenied", detail |-> client.app_name])
     ELSE IF parsed = None
       THEN Some([name |-> "InvalidRedirectUri", detail |-> payload.redirect_uri])
     ELSE IF is_script_scheme(Unwrap(parsed))
       THEN Some([name |-> "InvalidRedirectUri", detail |-> payload.redirect_uri])
     ELSE IF payload.redirect_uri \notin client.redirect_uris
       THEN Some([name |-> "InvalidRedirectUri", detail |-> payload.redirect_uri])
     ELSE IF payload.response_mode # None
             /\ Unwrap(payload.response_mode) \notin {"query", "fragment"}
       THEN Some([name |-> "invalid_response_mode",
                  detail |-> Unwrap(payload.response_mode)])
     ELSE None

\* Some(error) for the first check that fails, None when all pass.
validate_oauth_authorization(user, payload, client, group_ids, fetched) ==
  LET response_types == validated_response_types(payload)
      valid == valid_response_types(client)
      parsed == Url_parse(payload.redirect_uri)
  IN IF client.is_disabled THEN Some([name |-> "AppDisabled", detail |-> ""])
     ELSE IF \E i \in DOMAIN response_types : response_types[i] \notin valid
       THEN Some([name |-> "invalid_response_type",
                  detail |-> FirstNotIn(response_types, valid)])
     ELSE IF parsed = None
       THEN Some([name |-> "InvalidRedirectUri", detail |-> payload.redirect_uri])
     ELSE IF is_script_scheme(Unwrap(parsed))
       THEN Some([name |-> "InvalidRedirectUri", detail |-> payload.redirect_uri])
     ELSE IF payload.redirect_uri \notin client.redirect_uris
       THEN Some([name |-> "InvalidRedirectUri", detail |-> payload.redirect_uri])
     ELSE IF ~is_user_allowed(client, user.id, group_ids, fetched)
       THEN Some([name |-> "OauthAclDenied", detail |-> client.app_name])
     ELSE IF payload.response_mode # None
             /\ Unwrap(payload.response_mode) \notin {"query", "fragment"}
       THEN Some([name |-> "invalid_response_mode",
                  detail |-> Unwrap(payload.response_mode)])
     ELSE None

oauth_authorize_preview(token, payload) ==
  LET op == "oauth_authorize_preview"
      request == [access_token |-> token, payload |-> payload]
      rejection == UserExtractor(token)
      user == users[Unwrap(authenticate_jwt(token)).user_id]
      client_opt == from_client_id(payload.client_id)
      client == Unwrap(client_opt)
      user_groups == get_groups(user.id)
  IN /\ IF rejection # "" THEN resp' = Err(op, request, rejection)
        ELSE IF client_opt = None THEN resp' = Err(op, request, "UnknownClient")
        ELSE \E fetched \in fetch_group_permissions_for_client(client.client_id) :
               LET err == validate_oauth_authorization(user, payload, client,
                                                       user_groups, fetched)
               IN IF err # None
                    THEN resp' = ErrD(op, request, Unwrap(err).name, Unwrap(err).detail)
                    ELSE resp' = Ok(op, request,
                                    [client |-> client, user |-> user.id])
     /\ UNCHANGED <<entityVars, policyVars, authVars, oauthVars, now, rng>>

SeqContains(seq, x) == \E i \in DOMAIN seq : seq[i] = x

use_fragment_tokenonly(response_mode, response_types) ==
  IF response_mode # None THEN Unwrap(response_mode) = "fragment"
  ELSE SeqContains(response_types, "token")

use_fragment(response_mode, response_types) ==
  IF response_mode # None THEN Unwrap(response_mode) = "fragment"
  ELSE SeqContains(response_types, "token") \/ SeqContains(response_types, "id_token")

\* The callback parameters: a map from parameter name to value.
callback_params(response_types, code, access_token, id_token, state) ==
  (IF SeqContains(response_types, "code") THEN {<<"code", code>>} ELSE {})
  \cup (IF SeqContains(response_types, "token")
          THEN {<<"access_token", access_token>>, <<"token_type", "bearer">>,
                <<"expires_in", "3600">>}
          ELSE {})
  \cup (IF SeqContains(response_types, "id_token")
          THEN {<<"id_token", id_token>>} ELSE {})
  \cup (IF state # None THEN {<<"state", Unwrap(state)>>} ELSE {})

\* The redirect URL with the parameter string attached.
attach_params(redirect_url, parameter_string, as_fragment) ==
  IF as_fragment
    THEN set_query(set_fragment(redirect_url, Some(parameter_string)), None)
    ELSE set_fragment(set_query(redirect_url, Some(parameter_string)), None)

oauth_authorize_approve(token, payload) ==
  LET op == "oauth_authorize_approve"
      request == [access_token |-> token, payload |-> payload]
      rejection == UserExtractor(token)
      user == users[Unwrap(authenticate_jwt(token)).user_id]
      client_opt == from_client_id(payload.client_id)
      client == Unwrap(client_opt)
      user_groups == get_groups(user.id)
      response_types == split_whitespace(payload.response_type)
      authorization == authorize_for_user_row(user.id, client.client_id)
      code == sample_string("code")
      access_token == sample_string("access_token")
      with_code ==
        IF SeqContains(response_types, "code")
          THEN set_ex(redis, "oauth_code", code,
                      [user_id |-> user.id, client_id |-> client.client_id,
                       nonce |-> payload.nonce,
                       redirect_uri |-> payload.redirect_uri], CodeTtl)
          ELSE redis
      with_token ==
        IF SeqContains(response_types, "token")
          THEN set_ex(with_code, "oauth_access_token", access_token,
                      [user_id |-> user.id, client_id |-> client.client_id,
                       nonce |-> payload.nonce], GrantTtl)
          ELSE with_code
      fail(e) == /\ resp' = Err(op, request, e)
                 /\ UNCHANGED <<oauthVars, rng>>
  IN /\ IF rejection # "" THEN fail(rejection)
        ELSE IF client_opt = None THEN fail("UnknownClient")
        ELSE \E fetched \in fetch_group_permissions_for_client(client.client_id),
                fetched_group \in fetch_group_role_overrides_for_client(client.client_id),
                fetched_user \in fetch_user_role_overrides_for_client(user.id, client.client_id) :
               LET err == validate_oauth_authorization(user, payload, client,
                                                       user_groups, fetched)
                   roles == get_user_roles(client, user.id, user_groups,
                                           fetched_group, fetched_user)
                   id_token == create_id_token(user, client, user_groups,
                                               payload.nonce, authorization, roles)
                   params == callback_params(response_types, code, access_token,
                                             id_token, payload.state)
               IN IF err # None
                    THEN /\ resp' = ErrD(op, request, Unwrap(err).name,
                                         Unwrap(err).detail)
                         /\ UNCHANGED <<oauthVars, rng>>
                    ELSE /\ rng < MaxRng
                         /\ rng' = rng + 1
                         /\ user_app_authorizations' =
                              authorize_for_user(user.id, client.client_id)
                         /\ redis' = with_token
                         /\ resp' = Ok(op, request,
                                       [redirect_to |->
                                          attach_params(
                                            Unwrap(Url_parse(payload.redirect_uri)),
                                            params,
                                            use_fragment(payload.response_mode,
                                                         response_types)),
                                        user |-> user.id])
     /\ UNCHANGED <<entityVars, policyVars, authVars, now>>

(***************************************************************************)
(* The state after a user has gone through start_passkey_login and         *)
(* finish_passkey_login at time 0: the challenge, the session and the two  *)
(* session tokens are the ones those handlers produce.                     *)
(***************************************************************************)
LoggedInUser == User0(2)

LoginChallenge0 ==
  jwt_encode(login_challenge_key, [iat |-> 0, exp |-> ChallengeTtl, auth |-> 1])

Session0 == new_session(1, LoggedInUser.id, 2, 2)

AccessToken0 ==
  jwt_encode(access_session_key,
             [user_id |-> LoggedInUser.id, method |-> "passkey", iat |-> 0,
              exp |-> AccessTtl, email |-> LoggedInUser.email,
              username |-> LoggedInUser.username, name |-> LoggedInUser.name,
              is_admin |-> LoggedInUser.is_admin, webauthn_id |-> 2,
              session_id |-> 1])

RefreshToken0 ==
  jwt_encode(refresh_session_key, [session_id |-> 1, refresh_token |-> 2])

InitLoggedIn ==
  /\ webauthn_credentials = Credentials0
  /\ in_flight = {}
  /\ user_sessions = {Session0}
  /\ issued = {LoginChallenge0, AccessToken0, RefreshToken0}
  /\ rotated = {}
  /\ now = 0
  /\ resp = NoResp

AccessTokens == {t \in Presentable : t.key = access_session_key}

(***************************************************************************)
(* Approve and where it attaches the artifacts.                            *)
(***************************************************************************)
RedirectClient ==
  [Client0("c1") EXCEPT !.redirect_uris = {"https://app/cb", "https://app/cb?x=1"}]

RedirectPayloads ==
  [scope : {"openid"}, response_type : ResponseTypeStrings, client_id : {"c1"},
   redirect_uri : {"https://app/cb", "https://app/cb?x=1"},
   state : {None, Some("xyz")},
   response_mode : {None, Some("query"), Some("fragment"), Some("form_post")},
   nonce : {None}]

InitRedirect ==
  /\ users = [id \in Users |-> User0(id)]
  /\ clients = [c \in Clients |-> IF c = "c1" THEN RedirectClient ELSE Client0(c)]
  /\ permission_group_membership = {}
  /\ InitPolicy
  /\ InitOauth
  /\ InitLoggedIn
  /\ rng = 2

NextRedirect ==
  \E token \in AccessTokens, payload \in RedirectPayloads :
    oauth_authorize_approve(token, payload)

SpecRedirect == InitRedirect /\ [][NextRedirect]_vars

ParamNames(params) == {p[1] : p \in params}

ExpectedParamNames(payload) ==
  LET response_types == split_whitespace(payload.response_type)
  IN (IF SeqContains(response_types, "code") THEN {"code"} ELSE {})
     \cup (IF SeqContains(response_types, "token")
             THEN {"access_token", "token_type", "expires_in"} ELSE {})
     \cup (IF SeqContains(response_types, "id_token") THEN {"id_token"} ELSE {})
     \cup (IF payload.state # None THEN {"state"} ELSE {})

FragmentRequested(payload) ==
  \/ payload.response_mode = Some("fragment")
  \/ /\ payload.response_mode = None
     /\ \/ SeqContains(split_whitespace(payload.response_type), "token")
        \/ SeqContains(split_whitespace(payload.response_type), "id_token")

\* C7: a successful Approve attaches the artifacts and the state to the
\* redirect URI as its fragment exactly when response_mode is fragment, or
\* is absent with token or id_token requested, and as its query otherwise;
\* the other of the two parts is empty.
C7_RedirectPlacement ==
  (resp.op = "oauth_authorize_approve" /\ resp.status = "ok") =>
    LET payload == resp.request.payload
        url == resp.body.redirect_to
    IN /\ FragmentRequested(payload) =>
            /\ url.fragment # None
            /\ ParamNames(Unwrap(url.fragment)) = ExpectedParamNames(payload)
            /\ url.query = None
       /\ ~FragmentRequested(payload) =>
            /\ url.query # None
            /\ ParamNames(Unwrap(url.query)) = ExpectedParamNames(payload)
            /\ url.fragment = None

\* An id_token alone with no response_mode, for a registered redirect URI
\* that has a query of its own: the fragment carries it, the query is gone.
C7_Witness ==
  /\ resp.op = "oauth_authorize_approve"
  /\ resp.status = "ok"
  /\ resp.request.payload.response_type = "id_token"
  /\ resp.request.payload.response_mode = None
  /\ resp.request.payload.redirect_uri = "https://app/cb?x=1"
  /\ resp.body.redirect_to.query = None
  /\ "id_token" \in ParamNames(Unwrap(resp.body.redirect_to.fragment))

(***************************************************************************)
(* Preview and Approve against every client configuration.                 *)
(***************************************************************************)
ScriptAllowList ==
  {"https://app/cb", "javascript:alert(1)", "JavaScript:alert(1)",
   "data:text/html,x", "not a uri"}

ValidateClients ==
  {[Client0("c1") EXCEPT !.is_disabled = d, !.allow_explicit_flow = e,
                         !.allow_implicit_flow = i, !.default_allowed = a,
                         !.redirect_uris = r] :
     d \in BOOLEAN, e \in BOOLEAN, i \in BOOLEAN, a \in BOOLEAN,
     r \in {{"https://app/cb"}, ScriptAllowList}}

ValidatePayloads ==
  [scope : {"openid"}, response_type : {"", "code", "token", "password"},
   client_id : {"c1"},
   redirect_uri : RedirectUris \ {"https://app/cb?x=1"},
   state : {None},
   response_mode : {None, Some("fragment"), Some("form_post")},
   nonce : {None}]
  \cup
  [scope : {"openid"}, response_type : {"code"}, client_id : {"c9"},
   redirect_uri : {"https://app/cb"}, state : {None}, response_mode : {None},
   nonce : {None}]

\* The draws made so far leave one more within the bound.
InitValidate ==
  /\ users = [id \in Users |-> User0(id)]
  /\ \E client \in ValidateClients :
       clients = [c \in Clients |-> IF c = "c1" THEN client ELSE Client0(c)]
  /\ permission_group_membership = {}
  /\ InitPolicy
  /\ InitOauth
  /\ InitLoggedIn
  /\ rng = MaxRng - 1

NextValidate ==
  \/ \E token \in AccessTokens, payload \in ValidatePayloads :
       oauth_authorize_preview(token, payload)
  \/ \E token \in AccessTokens, payload \in ValidatePayloads :
       oauth_authorize_approve(token, payload)

SpecValidate == InitValidate /\ [][NextValidate]_vars

AuthorizeOps == {"oauth_authorize_preview", "oauth_authorize_approve"}

HasScriptScheme(uri) ==
  \E url \in Url_parse(uri) : url.scheme \in {"javascript", "data"}

C8_ScriptStep ==
  (resp'.op \in AuthorizeOps /\ HasScriptScheme(resp'.request.payload.redirect_uri)) =>
    /\ resp'.status = "err"
    /\ UNCHANGED <<user_app_authorizations, redis>>

\* C8: a Preview or Approve whose redirect URI has the scheme javascript or
\* data returns an error, whatever the client's configuration and allow-list,
\* and leaves the authorization rows and the stored grants as they were.
C8_ScriptUriRejected == [][C8_ScriptStep]_vars

\* Approve refused javascript:alert(1) for an enabled client that registered
\* that very string, allows the user and supports the requested type.
C8_Witness ==
  /\ resp.op = "oauth_authorize_approve"
  /\ resp.status = "err"
  /\ resp.err = "InvalidRedirectUri"
  /\ resp.request.payload.redirect_uri = "javascript:alert(1)"
  /\ resp.request.payload.response_type = "code"
  /\ resp.request.payload.response_mode = None
  /\ "javascript:alert(1)" \in clients["c1"].redirect_uris
  /\ ~clients["c1"].is_disabled
  /\ clients["c1"].allow_explicit_flow
  /\ clients["c1"].default_allowed

\* The five checks, each read from the state and the request on its own.
ClientDisabled(payload) == clients[payload.client_id].is_disabled

ResponseTypeRefused(payload) ==
  LET client == clients[payload.client_id]
      requested == IF payload.response_type = "" THEN {"code"}
                   ELSE Range(split_whitespace(payload.response_type))
  IN \E t \in requested :
       \/ t \notin {"code", "token", "id_token"}
       \/ t = "code" /\ ~client.allow_explicit_flow
       \/ t \in {"token", "id_token"} /\ ~client.allow_implicit_flow

RedirectUriRefused(payload) ==
  \/ Url_parse(payload.redirect_uri) = None
  \/ HasScriptScheme(payload.redirect_uri)
  \/ payload.redirect_uri \notin clients[payload.client_id].redirect_uris

AccessRefused(user_id, payload) ==
  \E fetched \in fetch_group_permissions_for_client(payload.client_id) :
    ~is_user_allowed(clients[payload.client_id], user_id, get_groups(user_id), fetched)

ResponseModeRefused(payload) ==
  payload.response_mode \notin {None, Some("query"), Some("fragment")}

FirstViolated(user_id, payload) ==
  IF ClientDisabled(payload) THEN "AppDisabled"
  ELSE IF ResponseTypeRefused(payload) THEN "invalid_response_type"
  ELSE IF RedirectUriRefused(payload) THEN "InvalidRedirectUri"
  ELSE IF AccessRefused(user_id, payload) THEN "OauthAclDenied"
  ELSE IF ResponseModeRefused(payload) THEN "invalid_response_mode"
  ELSE ""

ViolatedChecks(user_id, payload) ==
  {n \in 1..5 :
     \/ n = 1 /\ ClientDisabled(payload)
     \/ n = 2 /\ ResponseTypeRefused(payload)
     \/ n = 3 /\ RedirectUriRefused(payload)
     \/ n = 4 /\ AccessRefused(user_id, payload)
     \/ n = 5 /\ ResponseModeRefused(payload)}

\* C9: for a request of a logged-in user to a known client, Preview and
\* Approve both answer with the error of the first violated check in the
\* order disabled, response type, redirect URI, access decision, response
\* mode (the access denial naming the client), and succeed when none is
\* violated; the answer depends on the request and the state only, so the
\* two endpoints agree.
C9_ValidationOrder ==
  (/\ resp.op \in AuthorizeOps
   /\ UserExtractor(resp.request.access_token) = ""
   /\ resp.request.payload.client_id \in DOMAIN clients) =>
    LET payload == resp.request.payload
        user_id == Unwrap(authenticate_jwt(resp.request.access_token)).user_id
        first == FirstViolated(user_id, payload)
    IN IF first = "" THEN resp.status = "ok"
       ELSE /\ resp.status = "err"
            /\ resp.err = first
            /\ first = "OauthAclDenied" =>
                 resp.detail = clients[payload.client_id].app_name

\* Approve answered a request violating the checks 3, 4 and 5 at once with
\* the redirect URI error.
C9_Witness ==
  /\ resp.op = "oauth_authorize_approve"
  /\ resp.status = "err"
  /\ resp.err = "InvalidRedirectUri"
  /\ ViolatedChecks(LoggedInUser.id, resp.request.payload) = {3, 4, 5}

(***************************************************************************)
(* OAuth: the token and userinfo endpoints.                                *)
(***************************************************************************)
code_matches_anyclient(code_data, payload, client) ==
  code_data.redirect_uri = payload.redirect_uri

\* The code was issued for this redirect URI and this client.
code_matches(code_data, payload, client) ==
  ~(code_data.redirect_uri # payload.redirect_uri
      \/ code_data.client_id # client.client_id)

token_credentials_formfirst(basic_auth, payload) ==
  IF payload.client_id # None /\ payload.client_secret # None
    THEN <<Unwrap(payload.client_id), Unwrap(payload.client_secret)>>
    ELSE Unwrap(basic_auth)

\* The (id, secret) the client authenticates with: the Basic header's when
\* it parses, else the form's.
token_credentials(basic_auth, payload) ==
  IF basic_auth # None THEN Unwrap(basic_auth)
  ELSE <<Unwrap(payload.client_id), Unwrap(payload.client_secret)>>

\* basic_auth is get_basic_auth_from_header's Option<(id, secret)>.
oauth_token(basic_auth, payload) ==
  LET op == "oauth_token"
      request == [basic_auth |-> basic_auth, payload |-> payload]
      credentials == token_credentials(basic_auth, payload)
      client_opt == from_client_id(credentials[1])
      client == Unwrap(client_opt)
      code_opt == OauthCodeData_from_code(Unwrap(payload.code))
      code_data == Unwrap(code_opt)
      user_opt == from_user_id(code_data.user_id)
      user == Unwrap(user_opt)
      auth_opt == get_authorization(user.id, client.client_id)
      user_app_auth == Unwrap(auth_opt)
      groups == get_groups(user.id)
      access_token == sample_string("access_token")
      refresh_token == sample_string("refresh_token")
      access_token_data ==
        [user_id |-> user.id, client_id |-> client.client_id,
         nonce |-> code_data.nonce]
      fail(e) == /\ resp' = Err(op, request, e)
                 /\ UNCHANGED <<redis, rng>>
  IN /\ IF basic_auth = None /\ payload.client_id = None THEN fail("invalid_request")
        ELSE IF basic_auth = None /\ payload.client_secret = None
          THEN fail("invalid_request")
        ELSE IF client_opt = None THEN fail("invalid_client")
        ELSE IF client.client_secret # credentials[2] \/ client.is_disabled
          THEN fail("invalid_client")
        ELSE IF payload.grant_type # "authorization_code"
          THEN fail("unsupported_grant_type")
        ELSE IF payload.code = None THEN fail("invalid_request")
        ELSE IF code_opt = None THEN fail("invalid_grant")
        ELSE IF ~code_matches(code_data, payload, client) THEN fail("invalid_grant")
        ELSE IF user_opt = None THEN fail("invalid_grant")
        ELSE IF auth_opt = None THEN fail("invalid_grant")
        ELSE IF user_app_auth.revoked THEN fail("invalid_grant")
        ELSE \E fetched \in fetch_group_permissions_for_client(client.client_id),
                fetched_group \in fetch_group_role_overrides_for_client(client.client_id),
                fetched_user \in fetch_user_role_overrides_for_client(user.id, client.client_id) :
               IF ~is_user_allowed(client, user.id, groups, fetched)
                 THEN fail("invalid_grant")
                 ELSE /\ rng < MaxRng
                      /\ rng' = rng + 1
                      /\ redis' =
                           set_ex(set_ex(redis, "oauth_access_token", access_token,
                                         access_token_data, GrantTtl),
                                  "oauth_refresh_token", refresh_token,
                                  access_token_data, RefreshGrantTtl)
                      /\ resp' = Ok(op, request,
                                    [access_token |-> access_token,
                                     token_type |-> "Bearer",
                                     expires_in |-> GrantTtl,
                                     scope |-> "openid profile email",
                                     refresh_token |-> refresh_token,
                                     id_token |->
                                       create_id_token(
                                         user, client, groups, code_data.nonce,
                                         user_app_auth,
                                         get_user_roles(client, user.id, groups,
                                                        fetched_group, fetched_user)),
                                     user |-> user.id])
     /\ UNCHANGED <<entityVars, policyVars, authVars, user_app_authorizations, now>>

userinfo_user_blocked_never(user) == FALSE

\* The suspension check of oauth_userinfo.
userinfo_user_blocked(user) == user.is_suspended

\* The calls of oauth_userinfo that return a Result, each of which a cache
\* or database fault turns into Err: the grant read, the authorization,
\* user and client lookups, the group query, the policy queries and the
\* signing of the identity token.
UserinfoFaults ==
  {"none", "from_token", "get_authorization", "from_user_id", "from_client_id",
   "get_groups", "is_user_allowed", "create_id_token"}

\* Responses: "invalid_token" is 401 with WWW-Authenticate: Bearer
\* error="invalid_token" and an empty body; "internal_server_error" is a bare
\* 500 without that header. fault names the call that fails, if any.
oauth_userinfo(access_token, fault) ==
  LET op == "oauth_userinfo"
      request == [access_token |-> access_token]
      token_opt == OauthAccessTokenData_from_token(access_token)
      access_token_data == Unwrap(token_opt)
      auth_opt == get_authorization(access_token_data.user_id,
                                    access_token_data.client_id)
      user_opt == from_user_id(access_token_data.user_id)
      user == Unwrap(user_opt)
      client_opt == from_client_id(access_token_data.client_id)
      client == Unwrap(client_opt)
      groups == get_groups(user.id)
      unauthorized == resp' = Err(op, request, "invalid_token")
      internal == resp' = Err(op, request, "internal_server_error")
  IN /\ IF fault = "from_token" THEN internal
        ELSE IF token_opt = None THEN unauthorized
        ELSE IF fault = "get_authorization" \/ auth_opt = None THEN unauthorized
        ELSE IF fault = "from_user_id" \/ user_opt = None THEN unauthorized
        ELSE IF userinfo_user_blocked(user) THEN unauthorized
        ELSE IF fault = "from_client_id" \/ client_opt = None THEN unauthorized
        ELSE IF client.is_disabled THEN unauthorized
        ELSE IF fault = "get_groups" THEN unauthorized
        ELSE IF fault = "is_user_allowed" THEN internal
        ELSE \E fetched \in fetch_group_permissions_for_client(client.client_id),
                fetched_group \in fetch_group_role_overrides_for_client(client.client_id),
                fetched_user \in fetch_user_role_overrides_for_client(user.id, client.client_id) :
               IF ~is_user_allowed(client, user.id, groups, fetched)
                 THEN unauthorized
               ELSE IF fault = "create_id_token" THEN unauthorized
                 ELSE resp' = Ok(op, request,
                                 [id_token |->
                                    create_id_token(
                                      user, client, groups, access_token_data.nonce,
                                      Unwrap(auth_opt),
                                      get_user_roles(client, user.id, groups,
                                                     fetched_group, fetched_user)),
                                  user |-> user.id])
     /\ UNCHANGED <<entityVars, policyVars, authVars, oauthVars, now, rng>>

(***************************************************************************)
(* Authorization codes and their exchange.                                 *)
(***************************************************************************)
TokenClient(client_id) ==
  [Client0(client_id) EXCEPT !.redirect_uris = {"https://app/cb", "https://other/cb"}]

CodePayloads ==
  [scope : {"openid"}, response_type : {"code"}, client_id : Clients,
   redirect_uri : {"https://app/cb", "https://other/cb"}, state : {None},
   response_mode : {None}, nonce : {None}]

UnknownCode == [n |-> 0, use |-> "code"]

\* The codes a client may present: those handed out, and one never issued.
KnownCodes == {e.token : e \in {x \in redis : x.prefix = "oauth_code"}}

BasicAuths == {Some(<<"c1", "s1">>), Some(<<"c2", "s2">>), Some(<<"c1", "s2">>)}

TokenPayloads ==
  [grant_type : {"authorization_code"},
   code : {Some(c) : c \in KnownCodes \cup {UnknownCode}},
   redirect_uri : {"https://app/cb", "https://other/cb"},
   client_id : {None}, client_secret : {None}]
  \cup
  [grant_type : {"authorization_code", "refresh_token"},
   code : {None, Some(UnknownCode)}, redirect_uri : {"https://app/cb"},
   client_id : {None, Some("c1")}, client_secret : {None, Some("s1")}]

\* The row an Approve for client c2 left before this login.
Authorization0 ==
  [user_id |-> LoggedInUser.id, client_id |-> "c2",
   sub |-> [n |-> 0, use |-> "sub"], last_used |-> 0, revoked |-> FALSE]

InitToken ==
  /\ users = [id \in Users |-> User0(id)]
  /\ clients = [c \in Clients |-> TokenClient(c)]
  /\ permission_group_membership = {}
  /\ InitPolicy
  /\ user_app_authorizations = {Authorization0}
  /\ redis = {}
  /\ InitLoggedIn
  /\ rng = 2

NextToken ==
  \/ \E token \in AccessTokens, payload \in CodePayloads :
       oauth_authorize_approve(token, payload)
  \/ \E basic_auth \in BasicAuths \cup {None}, payload \in TokenPayloads :
       oauth_token(basic_auth, payload)
  \/ Tick

SpecToken == InitToken /\ [][NextToken]_vars

\* The client the request authenticates as, when its credentials are right.
AuthenticatedClient(request) ==
  LET given ==
        IF request.basic_auth # None THEN request.basic_auth
        ELSE IF request.payload.client_id # None /\ request.payload.client_secret # None
          THEN Some(<<Unwrap(request.payload.client_id),
                      Unwrap(request.payload.client_secret)>>)
        ELSE None
  IN {clients[c] : c \in {x \in DOMAIN clients :
                            \E g \in given : /\ g[1] = x
                                             /\ g[2] = clients[x].client_secret
                                             /\ ~clients[x].is_disabled}}

\* The stored code entries the request's code names that were issued for the
\* request's client and redirect URI.
BoundCodeEntries(request) ==
  {e \in redis :
     /\ e.prefix = "oauth_code"
     /\ request.payload.code = Some(e.token)
     /\ now < e.expires_at
     /\ \E client \in AuthenticatedClient(request) :
          e.value.client_id = client.client_id
     /\ e.value.redirect_uri = request.payload.redirect_uri}

Grants(store) ==
  {e \in store : e.prefix \in {"oauth_access_token", "oauth_refresh_token"}}

C10_ExchangeStep ==
  (/\ resp'.op = "oauth_token"
   /\ AuthenticatedClient(resp'.request) # {}
   /\ resp'.request.payload.grant_type = "authorization_code"
   /\ resp'.request.payload.code # None
   /\ BoundCodeEntries(resp'.request) = {}) =>
    /\ resp' = Err("oauth_token", resp'.request, "invalid_grant")
    /\ Grants(redis') = Grants(redis)

\* C10: a token exchange succeeds only for a stored code issued for the
\* authenticated client and the request's redirect URI; an authenticated
\* exchange whose code is unknown, or was issued for another client or
\* another redirect URI, returns invalid_grant and stores no access-token
\* or refresh-token grant.
C10_CodeBinding ==
  /\ []((resp.op = "oauth_token" /\ resp.status = "ok") =>
          BoundCodeEntries(resp.request) # {})
  /\ [][C10_ExchangeStep]_vars

\* Client c2 authenticated and presented, with the right redirect URI, a
\* live code issued for c1: invalid_grant.
C10_Witness ==
  /\ resp.op = "oauth_token"
  /\ resp.status = "err"
  /\ resp.err = "invalid_grant"
  /\ resp.request.basic_auth = Some(<<"c2", "s2">>)
  /\ \E e \in redis :
       /\ e.prefix = "oauth_code"
       /\ resp.request.payload.code = Some(e.token)
       /\ now < e.expires_at
       /\ e.value.client_id = "c1"
       /\ e.value.redirect_uri = resp.request.payload.redirect_uri

(***************************************************************************)
(* Suspension against the endpoints that serve a user.                     *)
(***************************************************************************)
ServedPayloads ==
  [scope : {"openid"}, response_type : {"code", "token"}, client_id : {"c1"},
   redirect_uri : {"https://app/cb"}, state : {None}, response_mode : {None},
   nonce : {None}]

UnknownGrant == [n |-> 0, use |-> "access_token"]

KnownGrants ==
  {e.token : e \in {x \in redis : x.prefix = "oauth_access_token"}}

InitSuspension ==
  /\ InitEntities
  /\ InitPolicy
  /\ InitOauth
  /\ InitLoggedIn
  /\ rng = 2

NextSuspension ==
  \/ \E user_id \in Users :
       \E payload \in SuspensionPayloads(user_id) : update_user(user_id, payload)
  \/ \E token \in Presentable, ms \in ClockReadings :
       \E pk_credential \in PkCredentials(ChallengesFor(token)) :
         finish_passkey_login(token, pk_credential, ms)
  \/ \E token \in Presentable : refresh_auth(token)
  \/ \E token \in AccessTokens, payload \in ServedPayloads :
       oauth_authorize_preview(token, payload)
  \/ \E token \in AccessTokens, payload \in ServedPayloads :
       oauth_authorize_approve(token, payload)
  \/ \E access_token \in KnownGrants \cup {UnknownGrant}, fault \in UserinfoFaults :
       oauth_userinfo(access_token, fault)
  \/ Tick

SpecSuspension == InitSuspension /\ [][NextSuspension]_vars

UserServingOps ==
  {"finish_passkey_login", "refresh_auth", "oauth_authorize_preview",
   "oauth_authorize_approve", "oauth_userinfo"}

\* The users a request is made for: the owner of the passkey, of the
\* session, of the access token, or of the access-token grant it presents.
RequestUsers(r) ==
  IF r.op = "finish_passkey_login"
    THEN {u \in DOMAIN users :
            users[u].credential_uuid = r.request.pk_credential.user_handle}
  ELSE IF r.op = "refresh_auth"
    THEN {x.user_id :
            x \in {y \in user_sessions :
                     \E c \in IdentityRefreshClaims_from_jwt(r.request.refresh_token) :
                       y.session_id = c.session_id}}
  ELSE IF r.op \in AuthorizeOps
    THEN {c.user_id : c \in authenticate_jwt(r.request.access_token)}
  ELSE IF r.op = "oauth_userinfo"
    THEN {e.value.user_id :
            e \in {x \in redis : /\ x.prefix = "oauth_access_token"
                                 /\ x.token = r.request.access_token}}
  ELSE {}

ForSuspendedUser(r) ==
  /\ r.op \in UserServingOps
  /\ \E u \in RequestUsers(r) : u \in DOMAIN users /\ users[u].is_suspended

C5_SuspendedStep ==
  ForSuspendedUser(resp') => (issued' = issued /\ redis' = redis)

\* C5: while a user is suspended, passkey login Finish, the refresh
\* exchange, Preview, Approve and userinfo made for that user answer with an
\* error, which carries no token, code or identity token, and store no code
\* or grant, whenever the presented challenge, token or grant was issued.
C5_SuspensionBlocks ==
  /\ [](ForSuspendedUser(resp) => resp.status = "err")
  /\ [][C5_SuspendedStep]_vars

\* userinfo refused a stored, unexpired access-token grant that was issued
\* to the user before the suspension.
C5_Witness ==
  /\ resp.op = "oauth_userinfo"
  /\ resp.status = "err"
  /\ \E e \in redis :
       /\ e.prefix = "oauth_access_token"
       /\ e.token = resp.request.access_token
       /\ now < e.expires_at
       /\ users[e.value.user_id].is_suspended

(***************************************************************************)
(* The administrator's writes of clients, overrides and memberships.  Each *)
(* is requested by an administrator whose AdminCtx was extracted.          *)
(***************************************************************************)
AdminPresent ==
  \E a \in DOMAIN users : users[a].is_admin /\ ~users[a].is_suspended

update_client(client_id, payload) ==
  LET op == "update_client"
      request == [client_id |-> client_id, payload |-> payload]
      client_opt == from_client_id(client_id)
  IN /\ AdminPresent
     /\ IF client_opt = None
          THEN /\ resp' = Err(op, request, "UnknownClient")
               /\ UNCHANGED clients
        ELSE IF Unwrap(client_opt).is_managed
          THEN /\ resp' = Err(op, request, "ManagedObject")
               /\ UNCHANGED clients
        ELSE /\ clients' =
                  [clients EXCEPT ![client_id] =
                     [@ EXCEPT !.app_name = payload.app_name,
                               !.redirect_uris = payload.redirect_uris,
                               !.is_disabled = payload.is_disabled,
                               !.default_allowed = payload.default_allowed,
                               !.allow_explicit_flow = payload.allow_explicit_flow,
                               !.allow_implicit_flow = payload.allow_implicit_flow]]
             /\ resp' = Ok(op, request, [client |-> client_id])
     /\ UNCHANGED <<users, permission_group_membership, policyVars, authVars,
                    oauthVars, now, rng>>

\* ON CONFLICT (user_id, client_id) DO UPDATE SET granted.
update_user_permission_override(client_id, user_id, granted) ==
  LET op == "update_user_permission_override"
      request == [client_id |-> client_id, user_id |-> user_id, granted |-> granted]
  IN /\ AdminPresent
     /\ IF from_client_id(client_id) = None
          THEN /\ resp' = Err(op, request, "UnknownClient")
               /\ UNCHANGED user_app_permission_override
          ELSE /\ user_app_permission_override' =
                    (user_app_permission_override
                       \ fetch_user_permissions_for_client(user_id, client_id))
                    \cup {[user_id |-> user_id, client_id |-> client_id,
                           granted |-> granted]}
               /\ resp' = Ok(op, request, [empty |-> TRUE])
     /\ UNCHANGED <<entityVars, group_app_permission_override,
                    user_app_role_override, group_app_role_override,
                    transaction, authVars,
                    oauthVars, now, rng>>

delete_user_permission_override(client_id, user_id) ==
  LET op == "delete_user_permission_override"
      request == [client_id |-> client_id, user_id |-> user_id]
  IN /\ AdminPresent
     /\ IF from_client_id(client_id) = None
          THEN /\ resp' = Err(op, request, "UnknownClient")
               /\ UNCHANGED user_app_permission_override
          ELSE /\ user_app_permission_override' =
                    user_app_permission_override
                      \ fetch_user_permissions_for_client(user_id, client_id)
               /\ resp' = Ok(op, request, [empty |-> TRUE])
     /\ UNCHANGED <<entityVars, group_app_permission_override,
                    user_app_role_override, group_app_role_override,
                    transaction, authVars,
                    oauthVars, now, rng>>

\* Every group of Groups exists and is not managed.  A membership that
\* exists already violates the primary key, which the handler reports as
\* success.
add_group_member(group_id, user_id) ==
  LET op == "add_group_member"
      request == [group_id |-> group_id, user_id |-> user_id]
  IN /\ AdminPresent
     /\ IF from_user_id(user_id) = {}
          THEN /\ resp' = Err(op, request, "UnknownUser")
               /\ UNCHANGED permission_group_membership
          ELSE /\ permission_group_membership' =
                    permission_group_membership
                      \cup {[group_id |-> group_id, user_id |-> user_id]}
               /\ resp' = Ok(op, request, [targeted_user |-> user_id])
     /\ UNCHANGED <<users, clients, policyVars, authVars, oauthVars, now, rng>>

remove_group_member(group_id, user_id) ==
  LET op == "remove_group_member"
      request == [group_id |-> group_id, user_id |-> user_id]
      row == [group_id |-> group_id, user_id |-> user_id]
  IN /\ AdminPresent
     /\ IF from_user_id(user_id) = {}
          THEN /\ resp' = Err(op, request, "UnknownUser")
               /\ UNCHANGED permission_group_membership
        ELSE IF row \notin permission_group_membership
          THEN /\ resp' = Err(op, request, "user_not_in_group")
               /\ UNCHANGED permission_group_membership
        ELSE /\ permission_group_membership' = permission_group_membership \ {row}
             /\ resp' = Ok(op, request, [targeted_user |-> user_id])
     /\ UNCHANGED <<users, clients, policyVars, authVars, oauthVars, now, rng>>

\* UserAppAuthorization::revoke_app_authorization: UPDATE ... SET revoked.
\* No route calls it; it is the store operation that sets the flag.
revoke_app_authorization(user_id, client_id) ==
  /\ user_app_authorizations' =
       {IF a.user_id = user_id /\ a.client_id = client_id
          THEN [a EXCEPT !.revoked = TRUE] ELSE a : a \in user_app_authorizations}
  /\ resp' = Ok("revoke_app_authorization",
                [user_id |-> user_id, client_id |-> client_id], [empty |-> TRUE])
  /\ UNCHANGED <<entityVars, policyVars, authVars, redis, now, rng>>

(***************************************************************************)
(* Policy and revocation changing between Approve and the exchange.        *)
(***************************************************************************)
RedeemUser == LoggedInUser.id

\* Group 1 is denied client c1; nobody is in it yet.
RedeemGroupOverride ==
  [group_id |-> 1, client_id |-> "c1", granted |-> FALSE, override_priority |-> 0]

RedeemClientPayloads ==
  {[app_name |-> clients["c1"].app_name,
    redirect_uris |-> clients["c1"].redirect_uris,
    is_disabled |-> FALSE, default_allowed |-> d,
    allow_explicit_flow |-> TRUE, allow_implicit_flow |-> TRUE] : d \in BOOLEAN}

RedeemTokenPayloads ==
  [grant_type : {"authorization_code"},
   code : {Some(c) : c \in KnownCodes},
   redirect_uri : {"https://app/cb"},
   client_id : {None}, client_secret : {None}]

InitRedeem ==
  /\ users = [id \in Users |-> User0(id)]
  /\ clients = [c \in Clients |-> TokenClient(c)]
  /\ permission_group_membership = {}
  /\ user_app_permission_override = {}
  /\ group_app_permission_override = {RedeemGroupOverride}
  /\ user_app_role_override = {}
  /\ group_app_role_override = {}
  /\ transaction = NoTransaction
  /\ InitOauth
  /\ InitLoggedIn
  /\ rng = 2

NextRedeem ==
  \/ \E token \in AccessTokens, payload \in CodePayloads :
       payload.client_id = "c1" /\ oauth_authorize_approve(token, payload)
  \/ \E granted \in BOOLEAN :
       update_user_permission_override("c1", RedeemUser, granted)
  \/ delete_user_permission_override("c1", RedeemUser)
  \/ \E payload \in RedeemClientPayloads : update_client("c1", payload)
  \/ add_group_member(1, RedeemUser)
  \/ remove_group_member(1, RedeemUser)
  \/ revoke_app_authorization(RedeemUser, "c1")
  \/ \E payload \in RedeemTokenPayloads : oauth_token(Some(<<"c1", "s1">>), payload)

SpecRedeem == InitRedeem /\ [][NextRedeem]_vars

\* The access decision read from the tables: the user override, else the
\* matching group override of the highest priority, else the default.
AccessDecision(user_id, client_id) ==
  LET own == UserPermissionOverrideOf(user_id, client_id)
      m == MatchingGroupOverrides(user_id, client_id)
  IN IF own # {} THEN \A o \in own : o.granted
     ELSE IF m = {} THEN clients[client_id].default_allowed
     ELSE \E o \in m : /\ \A q \in m : q.override_priority <= o.override_priority
                       /\ o.granted

AuthorizationRevoked(user_id, client_id) ==
  \E a \in get_authorization(user_id, client_id) : a.revoked

C11_RedeemStep ==
  (/\ resp'.op = "oauth_token"
   /\ \E e \in BoundCodeEntries(resp'.request) :
        \E client \in AuthenticatedClient(resp'.request) :
          \/ AuthorizationRevoked(e.value.user_id, client.client_id)
          \/ ~AccessDecision(e.value.user_id, client.client_id)) =>
    /\ resp' = Err("oauth_token", resp'.request, "invalid_grant")
    /\ Grants(redis') = Grants(redis)

\* C11: an exchange of a stored, unexpired code by its own client and with
\* its own redirect URI returns invalid_grant and stores no grant when, at
\* the time of the exchange, the authorization row of (user, client) is
\* revoked or the access decision over the current overrides, default and
\* memberships is false, although both were in order when the code was
\* issued.
C11_RedeemRecheck == [][C11_RedeemStep]_vars

\* The user joined the denied group after Approve: the code is refused
\* while the authorization row is not revoked.
C11_Witness ==
  /\ resp.op = "oauth_token"
  /\ resp.status = "err"
  /\ resp.err = "invalid_grant"
  /\ BoundCodeEntries(resp.request) # {}
  /\ ~AuthorizationRevoked(RedeemUser, "c1")
  /\ UserPermissionOverrideOf(RedeemUser, "c1") = {}
  /\ clients["c1"].default_allowed
  /\ MatchingGroupOverrides(RedeemUser, "c1") = {RedeemGroupOverride}

(***************************************************************************)
(* Client authentication at the token endpoint.                            *)
(***************************************************************************)
ClientAuthBasics ==
  {None, Some(<<"c1", "s1">>), Some(<<"c1", "s2">>), Some(<<"c9", "s1">>)}

ClientAuthPayloads ==
  [grant_type : {"authorization_code", "password"},
   code : {None} \cup {Some(c) : c \in KnownCodes},
   redirect_uri : {"https://app/cb"},
   client_id : {None, Some("c1"), Some("c9")},
   client_secret : {None, Some("s1"), Some("s2")}]

ClientAuthClientPayloads ==
  {[app_name |-> clients["c1"].app_name,
    redirect_uris |-> clients["c1"].redirect_uris,
    is_disabled |-> d, default_allowed |-> TRUE,
    allow_explicit_flow |-> TRUE, allow_implicit_flow |-> TRUE] : d \in BOOLEAN}

InitClientAuth ==
  /\ users = [id \in Users |-> User0(id)]
  /\ clients = [c \in Clients |-> TokenClient(c)]
  /\ permission_group_membership = {}
  /\ InitPolicy
  /\ InitOauth
  /\ InitLoggedIn
  /\ rng = 2

NextClientAuth ==
  \/ \E token \in AccessTokens, payload \in CodePayloads :
       /\ payload.client_id = "c1"
       /\ payload.redirect_uri = "https://app/cb"
       /\ oauth_authorize_approve(token, payload)
  \/ \E payload \in ClientAuthClientPayloads : update_client("c1", payload)
  \/ \E basic_auth \in ClientAuthBasics, payload \in ClientAuthPayloads :
       oauth_token(basic_auth, payload)

SpecClientAuth == InitClientAuth /\ [][NextClientAuth]_vars

\* The request carries credentials: a Basic header, or both form fields.
CredentialsGiven(request) ==
  \/ request.basic_auth # None
  \/ request.payload.client_id # None /\ request.payload.client_secret # None

C12_AuthStep ==
  (resp'.op = "oauth_token" /\ CredentialsGiven(resp'.request)) =>
    IF AuthenticatedClient(resp'.request) = {}
      THEN /\ resp' = Err("oauth_token", resp'.request, "invalid_client")
           /\ redis' = redis
      ELSE resp'.status = "err" => resp'.err # "invalid_client"

\* C12: a token request whose credentials (those of the Basic header when
\* there is one, else those of the form) name an unknown client, carry a
\* wrong secret or name a disabled client is answered invalid_client with
\* the same response in the three cases, whatever its grant type and code,
\* and stores nothing; a request whose credentials are right is never
\* answered invalid_client.
C12_ClientAuthentication == [][C12_AuthStep]_vars

\* A disabled client with its right secret in the Basic header, wrong form
\* credentials beside it, and a stored unexpired code: invalid_client.
C12_Witness ==
  /\ resp.op = "oauth_token"
  /\ resp.status = "err"
  /\ resp.err = "invalid_client"
  /\ resp.request.basic_auth = Some(<<"c1", "s1">>)
  /\ resp.request.payload.client_id = Some("c9")
  /\ resp.request.payload.client_secret # None
  /\ clients["c1"].is_disabled
  /\ resp.request.payload.grant_type = "authorization_code"
  /\ \E e \in redis : /\ e.prefix = "oauth_code"
                      /\ resp.request.payload.code = Some(e.token)
                      /\ now < e.expires_at

(***************************************************************************)
(* The failures of the userinfo endpoint.                                  *)
(***************************************************************************)
UserinfoClientPayloads ==
  {[app_name |-> clients["c1"].app_name,
    redirect_uris |-> clients["c1"].redirect_uris,
    is_disabled |-> d, default_allowed |-> a,
    allow_explicit_flow |-> TRUE, allow_implicit_flow |-> TRUE] :
     d \in BOOLEAN, a \in BOOLEAN}

InitUserinfo == InitSuspension

NextUserinfo ==
  \/ \E token \in AccessTokens, payload \in ServedPayloads :
       oauth_authorize_approve(token, payload)
  \/ \E payload \in SuspensionPayloads(LoggedInUser.id) :
       update_user(LoggedInUser.id, payload)
  \/ \E payload \in UserinfoClientPayloads : update_client("c1", payload)
  \/ \E access_token \in KnownGrants \cup {UnknownGrant}, fault \in UserinfoFaults :
       oauth_userinfo(access_token, fault)
  \/ Tick

SpecUserinfo == InitUserinfo /\ [][NextUserinfo]_vars

\* C13: every failing userinfo request, a fault of the cache or of the store
\* during the checks included, is answered 401 with WWW-Authenticate
\* invalid_token and nothing that tells the causes apart.
C13_UserinfoFailuresUniform ==
  (resp.op = "oauth_userinfo" /\ resp.status = "err") =>
    resp = Err("oauth_userinfo", resp.request, "invalid_token")

\* The failures that are no fault of the grant read or of the policy queries
\* (unknown grant, suspended user, disabled client, refused access, failing
\* lookups) are all answered 401 invalid_token.
UserinfoRefused ==
  /\ resp.op = "oauth_userinfo"
  /\ resp = Err("oauth_userinfo", resp.request, "invalid_token")
  /\ users[LoggedInUser.id].is_suspended
  /\ resp.request.access_token \in KnownGrants

(***************************************************************************)
(* From a new passkey to the identity token of userinfo.                   *)
(***************************************************************************)
ProfileUser == LoggedInUser.id

\* The registration link mailed to the user and the two challenges handed
\* out by start_passkey_registration and start_passkey_login.
RegistrationLink0 ==
  jwt_encode(registration_intent_key,
             [user_id |-> LoggedInUser.id, iat |-> 0, exp |-> RegistrationTtl,
              email |-> LoggedInUser.email, username |-> LoggedInUser.username,
              name |-> LoggedInUser.name])

RegistrationChallenge0 ==
  jwt_encode(registration_challenge_key,
             [credential_uuid |-> LoggedInUser.credential_uuid, iat |-> 0,
              exp |-> ChallengeTtl, reg |-> 1])

ProfileRoleOverride ==
  [group_id |-> 1, client_id |-> "c1", role |-> "editor", granted |-> TRUE,
   override_priority |-> 0]

\* The user holds no passkey yet: the link and the challenges are out.
InitProfile ==
  /\ InitEntities
  /\ user_app_permission_override = {}
  /\ group_app_permission_override = {}
  /\ user_app_role_override = {}
  /\ group_app_role_override = {ProfileRoleOverride}
  /\ transaction = NoTransaction
  /\ InitOauth
  /\ webauthn_credentials = {}
  /\ in_flight = {}
  /\ user_sessions = {}
  /\ issued = {RegistrationLink0, RegistrationChallenge0, LoginChallenge0}
  /\ rotated = {}
  /\ now = 0
  /\ rng = 1
  /\ resp = NoResp

\* The user's authenticator answering the login challenge with the passkey
\* it registered, or with one it never registered.
ProfilePkCredentials ==
  [user_handle : {LoggedInUser.credential_uuid}, cred_id : {NewCredentialId, "k2"},
   challenge : ChallengesFor(LoginChallenge0)]

ProfilePayloads ==
  [scope : {"openid"}, response_type : {"code"}, client_id : {"c1"},
   redirect_uri : {"https://app/cb"}, state : {None}, response_mode : {None},
   nonce : {None, Some("xyz")}]

ProfileTokenPayloads ==
  [grant_type : {"authorization_code"},
   code : {Some(c) : c \in KnownCodes \cup {UnknownCode}},
   redirect_uri : {"https://app/cb"}, client_id : {None}, client_secret : {None}]

\* Approve has handed out a code for the user.
Approved ==
  \E e \in redis : e.value.user_id = ProfileUser

\* The administrator's changes are made after Approve.
NextProfile ==
  \/ \E pk_credential \in RegisterPkCredentials(
                            {BASE64_STANDARD_encode(NewCredentialId)},
                            RegistrationChallengesFor(RegistrationChallenge0)) :
       finish_passkey_registration(RegistrationChallenge0, RegistrationLink0,
                                   pk_credential)
  \/ \E pk_credential \in ProfilePkCredentials, ms \in ClockReadings :
       finish_passkey_login(LoginChallenge0, pk_credential, ms)
  \/ \E token \in AccessTokens, payload \in ProfilePayloads :
       oauth_authorize_approve(token, payload)
  \/ \E name \in Names :
       /\ Approved
       /\ update_user(ProfileUser,
                      [name |-> name, email |-> users[ProfileUser].email,
                       username |-> users[ProfileUser].username,
                       is_suspended |-> FALSE,
                       is_admin |-> users[ProfileUser].is_admin])
  \/ Approved /\ add_group_member(1, ProfileUser)
  \/ Approved /\ remove_group_member(1, ProfileUser)
  \/ \E payload \in ProfileTokenPayloads :
       oauth_token(Some(<<"c1", "s1">>), payload)
  \/ \E access_token \in KnownGrants \cup {UnknownGrant} :
       oauth_userinfo(access_token, "none")

SpecProfile == InitProfile /\ [][NextProfile]_vars

\* The identity token's profile, groups and roles are those the store holds
\* for the user and the client now.
IdTokenCurrent(id_token, user_id, client_id) ==
  LET c == id_token.claims
      user == users[user_id]
      group_ids == get_groups(user_id)
  IN /\ c.name = user.name
     /\ c.preferred_username = user.username
     /\ c.email = user.email
     /\ c.groups = group_ids
     /\ \E fetched_group \in fetch_group_role_overrides_for_client(client_id),
           fetched_user \in fetch_user_role_overrides_for_client(user_id, client_id) :
          c.roles = get_user_roles(clients[client_id], user_id, group_ids,
                                   fetched_group, fetched_user)

GrantEntries ==
  {e \in redis : e.prefix \in {"oauth_access_token", "oauth_refresh_token"}}

\* C14: for a user who registered a passkey and logged in with it, Approve
\* for a default-allowed client, the exchange of the code it returned and
\* userinfo with the grant of that exchange all succeed; the identity token
\* of userinfo carries the name, username, email, groups and roles stored
\* when userinfo is called, also when they changed after Approve; and a
\* grant holds the user id, the client id and the nonce only.
C14_UserinfoCurrentProfile ==
  /\ (resp.op = "oauth_authorize_approve") => resp.status = "ok"
  /\ (resp.op = "oauth_token" /\ Unwrap(resp.request.payload.code) \in KnownCodes) =>
       resp.status = "ok"
  /\ (resp.op = "oauth_userinfo" /\ resp.request.access_token \in KnownGrants) =>
       /\ resp.status = "ok"
       /\ \E e \in GrantEntries :
            /\ e.token = resp.request.access_token
            /\ resp.body.user = e.value.user_id
            /\ IdTokenCurrent(resp.body.id_token, e.value.user_id, e.value.client_id)
  /\ \A e \in GrantEntries : DOMAIN e.value = {"user_id", "client_id", "nonce"}

\* userinfo answered the user who registered passkey k3 and logged in with
\* it, after the name and the groups changed following Approve.
C14_Witness ==
  /\ resp.op = "oauth_userinfo"
  /\ resp.status = "ok"
  /\ resp.body.user = ProfileUser
  /\ resp.body.id_token.claims.name = "n1"
  /\ resp.body.id_token.claims.name # User0(ProfileUser).name
  /\ resp.body.id_token.claims.groups = {1}
  /\ resp.body.id_token.claims.roles = <<"editor">>
  /\ \E c \in webauthn_credentials :
       /\ c.credential_id = BASE64_STANDARD_encode(NewCredentialId)
       /\ c.credential_uuid = users[ProfileUser].credential_uuid
       /\ \E x \in user_sessions : x.user_id = ProfileUser /\ x.webauthn_id = c.id

(***************************************************************************)
(* Failing refresh exchanges and logout.                                   *)
(***************************************************************************)
\* One session is open; its owner may log in again, refresh and log out.
InitSignOut ==
  /\ InitEntities
  /\ InitPolicy
  /\ InitOauth
  /\ InitLoggedIn
  /\ rng = 2

NextSignOut ==
  \/ \E ms \in ClockReadings :
       \E pk_credential \in PkCredentials(ChallengesFor(LoginChallenge0)) :
         finish_passkey_login(LoginChallenge0, pk_credential, ms)
  \/ \E token \in Presentable : refresh_auth(token)
  \/ \E token \in Presentable : logout_current_session(token)

SpecSignOut == InitSignOut /\ [][NextSignOut]_vars

\* The token does not decode, names no stored session, or carries a secret
\* whose hash is not the one stored with its session.
RefreshFailureCause(token) ==
  LET claims_opt == IdentityRefreshClaims_from_jwt(token)
  IN \/ claims_opt = {}
     \/ \E c \in claims_opt :
          \/ from_session_id(c.session_id) = {}
          \/ \E x \in from_session_id(c.session_id) :
               x.refresh_hash # hash_password(c.refresh_token)

C15_FailStep ==
  (resp'.op = "refresh_auth" /\ RefreshFailureCause(resp'.request.refresh_token)) =>
    /\ resp' = Err("refresh_auth", resp'.request, "SessionExpired")
    /\ user_sessions' = user_sessions

\* C15: a refresh exchange whose token does not decode, whose session is
\* gone or whose secret does not match the stored hash is answered
\* SessionExpired, the same response in the three cases, and leaves the
\* session store as it was.
C15_RefreshFailuresUniform == [][C15_FailStep]_vars

\* A rotated refresh token was replayed while its session is still stored:
\* the hash no longer matches.
C15_Witness ==
  /\ resp.op = "refresh_auth"
  /\ resp = Err("refresh_auth", resp.request, "SessionExpired")
  /\ resp.request.refresh_token \in rotated
  /\ \E c \in IdentityRefreshClaims_from_jwt(resp.request.refresh_token) :
       from_session_id(c.session_id) # {}

\* The session ids named by the access claims of the token.
ClaimedSessionIds(token) == {c.session_id : c \in authenticate_jwt(token)}

C16_LogoutStep ==
  (resp'.op = "logout_current_session" /\ UserExtractor(resp'.request.access_token) = "") =>
    /\ resp'.status = "ok"
    /\ user_sessions' =
         {x \in user_sessions :
            x.session_id \notin ClaimedSessionIds(resp'.request.access_token)}

\* C16: logout with a valid access token of an active user succeeds and
\* removes the session whose id the token's claims carry and no other; when
\* that session is already gone it succeeds too and the store is unchanged.
C16_LogoutExact == [][C16_LogoutStep]_vars

\* Logout succeeded for a token whose session is gone while another session
\* of the same user is still stored.
C16_Witness ==
  /\ resp.op = "logout_current_session"
  /\ resp.status = "ok"
  /\ \A id \in ClaimedSessionIds(resp.request.access_token) : from_session_id(id) = {}
  /\ \E c \in authenticate_jwt(resp.request.access_token) :
       \E x \in user_sessions : x.user_id = c.user_id

(***************************************************************************)
(* The pairwise subject of an authorization.                               *)
(***************************************************************************)
SubjectPayloads ==
  [scope : {"openid"}, response_type : {"code", "id_token"}, client_id : Clients,
   redirect_uri : {"https://app/cb"}, state : {None}, response_mode : {None},
   nonce : {None}]

SubjectBasicAuths == {Some(<<"c1", "s1">>), Some(<<"c2", "s2">>)}

SubjectTokenPayloads ==
  [grant_type : {"authorization_code"}, code : {Some(c) : c \in KnownCodes},
   redirect_uri : {"https://app/cb"}, client_id : {None}, client_secret : {None}]

\* The user approved c2 before and never c1.
InitSubject ==
  /\ InitEntities
  /\ InitPolicy
  /\ user_app_authorizations = {Authorization0}
  /\ redis = {}
  /\ InitLoggedIn
  /\ rng = 1

NextSubject ==
  \/ \E token \in AccessTokens, payload \in SubjectPayloads :
       oauth_authorize_approve(token, payload)
  \/ \E client_id \in Clients : revoke_app_authorization(LoggedInUser.id, client_id)
  \/ \E basic_auth \in SubjectBasicAuths, payload \in SubjectTokenPayloads :
       oauth_token(basic_auth, payload)
  \/ \E access_token \in KnownGrants : oauth_userinfo(access_token, "none")
  \/ Tick

SpecSubject == InitSubject /\ [][NextSubject]_vars

\* The identity tokens a response hands out: in the callback parameters of
\* Approve, in the body of the token response, or the body of userinfo.
MintedIdTokens(r) ==
  IF r.op = "oauth_authorize_approve" /\ r.status = "ok"
    THEN {p[2] : p \in {q \in UNION (r.body.redirect_to.query
                                      \cup r.body.redirect_to.fragment) :
                          q[1] = "id_token"}}
  ELSE IF r.op \in {"oauth_token", "oauth_userinfo"} /\ r.status = "ok"
    THEN {r.body.id_token}
  ELSE {}

C17_SubStep ==
  /\ \A a \in user_app_authorizations :
       \E b \in user_app_authorizations' :
         /\ b.user_id = a.user_id
         /\ b.client_id = a.client_id
         /\ b.sub = a.sub
  /\ \A b, c \in user_app_authorizations' :
       (b.user_id = c.user_id /\ b.client_id = c.client_id) => b = c
  /\ \A t \in MintedIdTokens(resp') :
       \E b \in user_app_authorizations' :
         /\ b.user_id = resp'.body.user
         /\ b.client_id = t.claims.aud
         /\ t.claims.sub = b.sub

\* C17: the sub of the authorization of a (user, client) pair is set when
\* the row is first written and is the same after every later approval,
\* revocation and re-approval; every identity token handed out by Approve,
\* the token exchange and userinfo for the pair carries that sub.
C17_SubjectStable == [][C17_SubStep]_vars

\* An identity token was minted for the pair approved earlier, after it was
\* approved again at a later time: it carries the sub of the first approval.
C17_Witness ==
  /\ MintedIdTokens(resp) # {}
  /\ \A t \in MintedIdTokens(resp) :
       t.claims.aud = "c2" /\ t.claims.sub = Authorization0.sub
  /\ \E b \in user_app_authorizations :
       b.client_id = "c2" /\ b.last_used = TickStep /\ b.sub = Authorization0.sub
  /\ \E b \in user_app_authorizations : b.client_id = "c1"

(***************************************************************************)
(* Session ids.                                                            *)
(***************************************************************************)
\* The session ids handed out before the last response: those in the
\* refresh tokens issued, the one of the last response left out.
EarlierSessionIds ==
  {t.claims.session_id :
     t \in {x \in issued : /\ x.key = refresh_session_key
                           /\ resp.status = "ok" => x # resp.body.refresh_token}}

\* C18: two sessions created by the process never receive the same id, also
\* when their logins read the same clock tick, and a later session never
\* receives a smaller id: a login that passed the ceremony is not refused
\* for a session id already stored, and the id it returns is greater than
\* every id handed out before.
C18_SessionIdsFresh ==
  resp.op = "finish_passkey_login" =>
    /\ resp.status = "err" => resp.err # "InternalServerError"
    /\ resp.status = "ok" =>
         \A id \in EarlierSessionIds : id < resp.body.session_id

(***************************************************************************)
(* The bulk replacement of a client's group overrides: pool.begin(), the   *)
(* DELETE, one INSERT per entry, commit().  The statements of one request  *)
(* interleave with the requests of others.                                 *)
(***************************************************************************)
executed_on_pool(committed, working) == working

\* .execute(&mut *transaction): the statement changes the rows the
\* transaction works on; the committed rows, which the statements of other
\* connections read, stay as they are.
executed_in_transaction(committed, working) == committed

\* INSERT ... ON CONFLICT (group_id, client_id) DO UPDATE SET granted,
\* override_priority.
upsert_group_permission(rows, entry) ==
  {x \in rows : ~(x.group_id = entry.group_id /\ x.client_id = entry.client_id)}
    \cup {entry}

\* INSERT ... ON CONFLICT (group_id, client_id, role) DO UPDATE SET granted,
\* override_priority.
upsert_group_role(rows, entry) ==
  {x \in rows : ~(/\ x.group_id = entry.group_id
                  /\ x.client_id = entry.client_id
                  /\ x.role = entry.role)}
    \cup {entry}

BulkTables == {"group_app_permission_override", "group_app_role_override"}

CommittedRows(table) ==
  IF table = "group_app_permission_override"
    THEN group_app_permission_override ELSE group_app_role_override

\* update_group_permission_overrides and update_group_role_overrides up to
\* pool.begin(); fault: begin() fails.
update_group_overrides(table, client_id, overrides, fault) ==
  LET op == IF table = "group_app_permission_override"
              THEN "update_group_permission_overrides"
              ELSE "update_group_role_overrides"
      request == [client_id |-> client_id, overrides |-> overrides]
  IN /\ AdminPresent
     /\ transaction = NoTransaction
     /\ IF from_client_id(client_id) = None
          THEN /\ resp' = Err(op, request, "UnknownClient")
               /\ UNCHANGED transaction
        ELSE IF fault
          THEN /\ resp' = Err(op, request, "InternalServerError")
               /\ UNCHANGED transaction
        ELSE /\ transaction' =
                  [status |-> "open", op |-> op, table |-> table,
                   client_id |-> client_id, request |-> request,
                   overrides |-> overrides, next |-> "delete",
                   working |-> CommittedRows(table),
                   before |-> CommittedRows(table)]
             /\ resp' = NoResp
     /\ UNCHANGED <<entityVars, user_app_permission_override,
                    group_app_permission_override, user_app_role_override,
                    group_app_role_override, authVars, oauthVars, now, rng>>

\* The next statement of the open transaction; fault: it returns an error,
\* the ? operator leaves the function and the dropped transaction is rolled
\* back.
transaction_statement(fault) ==
  LET t == transaction
      entry == Head(t.overrides)
      working ==
        IF t.next = "delete"
          THEN {x \in t.working : x.client_id # t.client_id}
        ELSE IF t.next = "insert"
          THEN IF t.table = "group_app_permission_override"
                 THEN upsert_group_permission(t.working, entry)
                 ELSE upsert_group_role(t.working, entry)
        ELSE t.working
      overrides == IF t.next = "insert" THEN Tail(t.overrides) ELSE t.overrides
      committed ==
        IF fault THEN CommittedRows(t.table)
        ELSE IF t.next = "commit" THEN t.working
        ELSE executed_in_transaction(CommittedRows(t.table), working)
  IN /\ t.status = "open"
     /\ IF fault
          THEN /\ transaction' = NoTransaction
               /\ resp' = Err(t.op, t.request, "InternalServerError")
        ELSE IF t.next = "commit"
          THEN /\ transaction' = NoTransaction
               /\ resp' = Ok(t.op, t.request,
                             [client |-> t.client_id,
                              group_permission_overrides |-> t.request.overrides])
        ELSE /\ transaction' =
                  [t EXCEPT !.working = working, !.overrides = overrides,
                            !.next = IF overrides = <<>> THEN "commit" ELSE "insert"]
             /\ UNCHANGED resp
     /\ group_app_permission_override' =
          IF t.table = "group_app_permission_override"
            THEN committed ELSE group_app_permission_override
     /\ group_app_role_override' =
          IF t.table = "group_app_role_override"
            THEN committed ELSE group_app_role_override
     /\ UNCHANGED <<entityVars, user_app_permission_override,
                    user_app_role_override, authVars, oauthVars, now, rng>>

BulkUser == LoggedInUser.id

BulkPermissionRows0 ==
  {[group_id |-> 1, client_id |-> "c1", granted |-> FALSE, override_priority |-> 0],
   [group_id |-> 1, client_id |-> "c2", granted |-> TRUE, override_priority |-> 0]}

BulkPermissionEntries ==
  <<[group_id |-> 1, client_id |-> "c1", granted |-> TRUE, override_priority |-> 1],
    [group_id |-> 2, client_id |-> "c1", granted |-> FALSE, override_priority |-> 0]>>

BulkRoleEntries ==
  <<[group_id |-> 1, client_id |-> "c1", role |-> "admin", granted |-> TRUE,
     override_priority |-> 0],
    [group_id |-> 1, client_id |-> "c1", role |-> "editor", granted |-> FALSE,
     override_priority |-> 1]>>

\* The request bodies: no entry, one entry, two entries.
BulkPayloads(entries) == {SubSeq(entries, 1, n) : n \in 0..Len(entries)}

InitBulk ==
  /\ users = [id \in Users |-> User0(id)]
  /\ clients = [c \in Clients |-> Client0(c)]
  /\ permission_group_membership = {[group_id |-> 1, user_id |-> BulkUser]}
  /\ user_app_permission_override = {}
  /\ group_app_permission_override = BulkPermissionRows0
  /\ user_app_role_override = {}
  /\ group_app_role_override = {ProfileRoleOverride}
  /\ transaction = NoTransaction
  /\ InitAuth /\ InitOauth /\ InitMisc

NextBulk ==
  \/ \E client_id \in {"c1", "c9"}, overrides \in BulkPayloads(BulkPermissionEntries),
        fault \in BOOLEAN :
       update_group_overrides("group_app_permission_override", client_id,
                              overrides, fault)
  \/ \E client_id \in {"c1", "c9"}, overrides \in BulkPayloads(BulkRoleEntries),
        fault \in BOOLEAN :
       update_group_overrides("group_app_role_override", client_id, overrides, fault)
  \/ \E fault \in BOOLEAN : transaction_statement(fault)
  \/ call_is_user_allowed(BulkUser, "c1")
  \/ call_get_user_roles(BulkUser, "c1")

SpecBulk == InitBulk /\ [][NextBulk]_vars

\* The complete new set of the open transaction's table: the other clients'
\* rows and the entries of the request.
NewRows(t) ==
  {x \in t.before : x.client_id # t.client_id} \cup Range(t.request.overrides)

\* The complete old and the complete new set of a table while a replacement
\* is open on it; the committed rows otherwise.
CompleteSets(table) ==
  IF transaction.status = "open" /\ transaction.table = table
    THEN {transaction.before, NewRows(transaction)}
    ELSE {CommittedRows(table)}

DecisionsUnder(rows, user_id, client_id) ==
  {is_user_allowed(clients[client_id], user_id, get_groups(user_id), fetched) :
     fetched \in {s \in SeqPermutations({o \in rows : o.client_id = client_id}) :
                    IsSortedByPriority(s)}}

RoleSetsUnder(rows, user_id, client_id) ==
  {get_user_roles(clients[client_id], user_id, get_groups(user_id),
                  fetched_group, fetched_user) :
     fetched_group \in SeqPermutations({o \in rows : o.client_id = client_id}),
     fetched_user \in fetch_user_role_overrides_for_client(user_id, client_id)}

C19_OpenState ==
  /\ transaction.status = "open" =>
       CommittedRows(transaction.table) = transaction.before
  /\ resp.op = "is_user_allowed" =>
       \E rows \in CompleteSets("group_app_permission_override") :
         resp.result \in DecisionsUnder(rows, resp.user, resp.client)
  /\ resp.op = "get_user_roles" =>
       \E rows \in CompleteSets("group_app_role_override") :
         resp.result \in RoleSetsUnder(rows, resp.user, resp.client)

C19_ReplaceStep ==
  /\ group_app_permission_override' # group_app_permission_override =>
       /\ transaction.status = "open"
       /\ transaction.table = "group_app_permission_override"
       /\ transaction' = NoTransaction
       /\ resp'.status = "ok"
       /\ group_app_permission_override' = NewRows(transaction)
  /\ group_app_role_override' # group_app_role_override =>
       /\ transaction.status = "open"
       /\ transaction.table = "group_app_role_override"
       /\ transaction' = NoTransaction
       /\ resp'.status = "ok"
       /\ group_app_role_override' = NewRows(transaction)
  /\ (transaction.status = "open" /\ transaction' = NoTransaction
        /\ resp'.status = "err") =>
       /\ group_app_permission_override' = group_app_permission_override
       /\ group_app_role_override' = group_app_role_override
       /\ (IF transaction.table = "group_app_permission_override"
             THEN group_app_permission_override'
             ELSE group_app_role_override') = transaction.before

\* C19: while a bulk replacement of a client's group overrides is under
\* way, the rows other requests read are the complete set from before the
\* request, and an access decision or role set computed meanwhile is one
\* the complete old or the complete new set gives; the stored set changes
\* only at the commit, to the complete new set; and after a failure of the
\* delete, of an insert or of the commit it is the set from before the
\* request.
C19_BulkReplaceAtomic == []C19_OpenState /\ [][C19_ReplaceStep]_vars

\* An access decision was computed after the DELETE of an open replacement
\* and before its commit, and the emptied set would have given another one.
C19_Witness ==
  /\ transaction.status = "open"
  /\ transaction.table = "group_app_permission_override"
  /\ transaction.next = "insert"
  /\ resp.op = "is_user_allowed"
  /\ resp.result \notin DecisionsUnder(transaction.working, resp.user, resp.client)

(***************************************************************************)
(* The access decision and the order of the rows.                          *)
(***************************************************************************)
\* The decisions is_user_allowed reaches over every order of the client's
\* group-override rows.
DecisionsOverOrders(user_id, client_id) ==
  {is_user_allowed(clients[client_id], user_id, get_groups(user_id), fetched) :
     fetched \in SeqPermutations({o \in group_app_permission_override :
                                    o.client_id = client_id})}

\* C20: for a fixed client, user, membership and set of override rows the
\* decision is the same for every order in which the group-override rows
\* are returned.
C20_OrderIndependent ==
  resp.op = "is_user_allowed" =>
    DecisionsOverOrders(resp.user, resp.client) = {resp.result}

\* There is no user-scoped override, and two overrides of the user's groups
\* share the highest priority among them and disagree.
ConflictingTopTie(user_id, client_id) ==
  /\ UserPermissionOverrideOf(user_id, client_id) = {}
  /\ \E a, b \in MatchingGroupOverrides(user_id, client_id) :
       /\ a.granted # b.granted
       /\ a.override_priority = b.override_priority
       /\ \A q \in MatchingGroupOverrides(user_id, client_id) :
            q.override_priority <= a.override_priority

\* C20 as amended: the decision is the same for every order of the rows
\* unless, with no user-scoped override, two overrides of the user's groups
\* share the highest priority among them and carry different grant values.
C20_OrderIndependentWithoutTie ==
  (resp.op = "is_user_allowed" /\ ~ConflictingTopTie(resp.user, resp.client)) =>
    DecisionsOverOrders(resp.user, resp.client) = {resp.result}

\* Three overrides of the user's groups: the two of the highest priority
\* agree and the one below disagrees.
C20_Witness ==
  /\ resp.op = "is_user_allowed"
  /\ UserPermissionOverrideOf(resp.user, resp.client) = {}
  /\ \E a, b, c \in MatchingGroupOverrides(resp.user, resp.client) :
       /\ a # b
       /\ a.override_priority = b.override_priority
       /\ a.granted = b.granted
       /\ c.override_priority < a.override_priority
       /\ c.granted # a.granted
       /\ resp.result = a.granted

(***************************************************************************)
(* Exchanging the same code again.                                         *)
(***************************************************************************)
ReplayPayloads ==
  [scope : {"openid"}, response_type : {"code"}, client_id : {"c1"},
   redirect_uri : {"https://app/cb"}, state : {None}, response_mode : {None},
   nonce : {None}]

ReplayTokenPayloads ==
  [grant_type : {"authorization_code"},
   code : {Some(c) : c \in KnownCodes \cup {UnknownCode}},
   redirect_uri : {"https://app/cb"}, client_id : {None}, client_secret : {None}]

InitReplay ==
  /\ InitEntities
  /\ InitPolicy
  /\ InitOauth
  /\ InitLoggedIn
  /\ rng = 1

NextReplay ==
  \/ \E token \in AccessTokens, payload \in ReplayPayloads :
       oauth_authorize_approve(token, payload)
  \/ \E basic_auth \in {Some(<<"c1", "s1">>), Some(<<"c1", "s2">>)},
        payload \in ReplayTokenPayloads :
       oauth_token(basic_auth, payload)
  \/ revoke_app_authorization(LoggedInUser.id, "c1")
  \/ Tick

SpecReplay == InitReplay /\ [][NextReplay]_vars

CodeEntries(store) == {e \in store : e.prefix = "oauth_code"}

\* The redemption checks pass: the code is stored, unexpired and bound to
\* the authenticated client and the redirect URI, its user exists, the
\* authorization is not revoked and the access decision is true.
RedemptionChecksPass(request) ==
  \E e \in BoundCodeEntries(request) :
    /\ from_user_id(e.value.user_id) # {}
    /\ \E a \in get_authorization(e.value.user_id, e.value.client_id) : ~a.revoked
    /\ AccessDecision(e.value.user_id, e.value.client_id)

C21_ReplayStep ==
  resp'.op = "oauth_token" =>
    /\ CodeEntries(redis') = CodeEntries(redis)
    /\ RedemptionChecksPass(resp'.request) =>
         /\ resp'.status = "ok"
         /\ \E a, r \in Grants(redis') \ Grants(redis) :
              /\ a.prefix = "oauth_access_token"
              /\ a.token = resp'.body.access_token
              /\ r.prefix = "oauth_refresh_token"
              /\ r.token = resp'.body.refresh_token
         /\ \A g \in Grants(redis) :
              g.token \notin {resp'.body.access_token, resp'.body.refresh_token}

\* C21: a token exchange leaves every stored code as it was; whenever the
\* code is stored, unexpired and the redemption checks pass, the exchange
\* succeeds, the first time or again, and stores an access-token grant and
\* a refresh-token grant under tokens no stored grant has.
C21_CodeNotConsumed == [][C21_ReplayStep]_vars

\* One code is stored and two exchanges of it have succeeded.
C21_Witness ==
  /\ resp.op = "oauth_token"
  /\ resp.status = "ok"
  /\ Cardinality(CodeEntries(redis)) = 1
  /\ Cardinality({g \in Grants(redis) : g.prefix = "oauth_access_token"}) = 2
  /\ Cardinality({g \in Grants(redis) : g.prefix = "oauth_refresh_token"}) = 2

(***************************************************************************)
(* The lifetimes of the grants.                                            *)
(***************************************************************************)
MaxNow == 3900

\* The clock moves on by a number of seconds.
Elapse(seconds) ==
  /\ now + seconds <= MaxNow
  /\ now' = now + seconds
  /\ resp' = NoResp
  /\ UNCHANGED <<entityVars, policyVars, authVars, oauthVars, rng>>

InitLifetime == InitReplay

NextLifetime ==
  \/ \E token \in AccessTokens, payload \in ReplayPayloads :
       oauth_authorize_approve(token, payload)
  \/ \E payload \in ReplayTokenPayloads :
       oauth_token(Some(<<"c1", "s1">>), payload)
  \/ \E access_token \in KnownGrants \cup {UnknownGrant} :
       oauth_userinfo(access_token, "none")
  \/ \E seconds \in {300, 3300} : Elapse(seconds)

SpecLifetime == InitLifetime /\ [][NextLifetime]_vars

\* The lifetime of a grant, by the kind of its key.
Lifetime(prefix) ==
  IF prefix = "oauth_code" THEN 300
  ELSE IF prefix = "oauth_access_token" THEN 3600
  ELSE 1209600

Expired(e) == now >= e.expires_at

C22_LifetimeStep ==
  /\ \A e \in redis : e \in redis'
  /\ \A e \in redis' \ redis :
       /\ e.expires_at = now + Lifetime(e.prefix)
       /\ \A x \in redis : ~(x.prefix = e.prefix /\ x.token = e.token)
  /\ (/\ resp'.op = "oauth_token"
      /\ resp'.request.payload.code # None
      /\ \A e \in CodeEntries(redis) :
           resp'.request.payload.code = Some(e.token) => Expired(e)) =>
       resp' = Err("oauth_token", resp'.request, "invalid_grant")
  /\ (/\ resp'.op = "oauth_userinfo"
      /\ \A e \in Grants(redis) :
           (e.prefix = "oauth_access_token"
              /\ e.token = resp'.request.access_token) => Expired(e)) =>
       resp' = Err("oauth_userinfo", resp'.request, "invalid_token")

\* C22: a code is stored for 300 s, an access-token grant for 3600 s and a
\* refresh-token grant for 1209600 s from the time it is written; no step
\* rewrites or extends a stored grant; a token exchange whose code has
\* expired is answered invalid_grant and a userinfo call whose access-token
\* grant has expired is answered 401 invalid_token.
C22_GrantLifetimes == [][C22_LifetimeStep]_vars

\* userinfo was refused for an access-token grant whose 3600 s have elapsed
\* while its refresh-token grant is still alive and a later grant is too.
C22_Witness ==
  /\ resp.op = "oauth_userinfo"
  /\ resp.status = "err"
  /\ \E e \in Grants(redis) :
       /\ e.prefix = "oauth_access_token"
       /\ e.token = resp.request.access_token
       /\ Expired(e)
  /\ \E e \in Grants(redis) : e.prefix = "oauth_refresh_token" /\ ~Expired(e)
  /\ \E e \in CodeEntries(redis) : Expired(e)

(***************************************************************************)
(* An empty response_type.                                                 *)
(***************************************************************************)
\* The callback parameters of a redirect URL, in its query or its fragment.
RedirectParams(url) == UNION (url.query \cup url.fragment)

\* C23: an authorize request with an empty response_type is handled as a
\* request for code by Preview and by Approve: it is accepted only if the
\* client allows the explicit flow, and a successful Approve stores an
\* authorization code and returns it in the redirect.
C23_EmptyResponseTypeIsCode ==
  (/\ resp.op \in AuthorizeOps
   /\ resp.status = "ok"
   /\ split_whitespace(resp.request.payload.response_type) = <<>>) =>
    /\ clients[resp.request.payload.client_id].allow_explicit_flow
    /\ resp.op = "oauth_authorize_approve" =>
         \E p \in RedirectParams(resp.body.redirect_to) :
           /\ p[1] = "code"
           /\ \E e \in CodeEntries(redis) : e.token = p[2]

(***************************************************************************)
(* Registration Finish binds the challenge to the user of the link.        *)
(***************************************************************************)
MaxCredentialRows == 2

\* The link mailed to each user and the challenge each user's Start issued.
BindingLink(user_id) ==
  jwt_encode(registration_intent_key,
             [user_id |-> user_id, iat |-> 0, exp |-> RegistrationTtl,
              email |-> User0(user_id).email, username |-> User0(user_id).username,
              name |-> User0(user_id).name])

BindingChallenge(user_id) ==
  jwt_encode(registration_challenge_key,
             [credential_uuid |-> User0(user_id).credential_uuid, iat |-> 0,
              exp |-> ChallengeTtl, reg |-> user_id])

BindingUserPayloads(user_id) ==
  [name : {users[user_id].name}, email : {User0(user_id).email, "c@x"},
   username : {users[user_id].username}, is_suspended : BOOLEAN,
   is_admin : {users[user_id].is_admin}]

InitBinding ==
  /\ InitEntities /\ InitPolicy /\ InitOauth
  /\ webauthn_credentials = {}
  /\ in_flight = {}
  /\ user_sessions = {}
  /\ issued = {BindingLink(u) : u \in Users} \cup {BindingChallenge(u) : u \in Users}
  /\ rotated = {}
  /\ now = 0
  /\ rng = 2
  /\ resp = NoResp

NextBinding ==
  \/ \E challenge_signature \in Presentable, registration_token \in Presentable :
       \E pk_credential \in RegisterPkCredentials(
                              {BASE64_URL_SAFE_NO_PAD_encode(NewCredentialId)},
                              RegistrationChallengesFor(challenge_signature)) :
         /\ Cardinality(webauthn_credentials) < MaxCredentialRows
         /\ finish_passkey_registration(challenge_signature, registration_token,
                                        pk_credential)
  \/ \E user_id \in Users :
       \E payload \in BindingUserPayloads(user_id) : update_user(user_id, payload)
  \/ Tick

SpecBinding == InitBinding /\ [][NextBinding]_vars

\* A token that carries the claims of its purpose under the key of its
\* purpose and is not past its expiry by more than the leeway.
Decodes(token, key, field) ==
  /\ token.key = key
  /\ field \in DOMAIN token.claims
  /\ now <= token.claims.exp + Leeway

\* C24: a step persists a Credential row only as a Finish whose two tokens
\* decode, whose intent names an existing, unsuspended user with the
\* challenge's correlation id and the intent's email; the one new row carries
\* that user's correlation id, which is the challenge's: a challenge started
\* for one user never registers a credential for another.
C24_BindingStep ==
  webauthn_credentials' # webauthn_credentials =>
    /\ resp'.op = "finish_passkey_registration"
    /\ resp'.status = "ok"
    /\ LET link == resp'.request.registration_token
           challenge == resp'.request.challenge_signature
       IN /\ Decodes(link, registration_intent_key, "user_id")
          /\ Decodes(challenge, registration_challenge_key, "credential_uuid")
          /\ link.claims.user_id \in DOMAIN users
          /\ ~users[link.claims.user_id].is_suspended
          /\ challenge.claims.credential_uuid = users[link.claims.user_id].credential_uuid
          /\ users[link.claims.user_id].email = link.claims.email
          /\ \E row \in webauthn_credentials' :
               /\ row \notin webauthn_credentials
               /\ webauthn_credentials' = webauthn_credentials \cup {row}
               /\ row.credential_uuid = users[link.claims.user_id].credential_uuid
               /\ row.credential_uuid = challenge.claims.credential_uuid

C24_FinishBindsChallengeToUser == [][C24_BindingStep]_vars

\* C24 witness: the second user registered a passkey with their own link and
\* challenge, and the first user's challenge presented with the second
\* user's link is refused.
C24_Witness ==
  /\ resp.op = "finish_passkey_registration"
  /\ resp = Err("finish_passkey_registration", resp.request, "InvalidChallenge")
  /\ resp.request.registration_token = BindingLink(2)
  /\ resp.request.challenge_signature = BindingChallenge(1)
  /\ resp.request.pk_credential.challenge = 1
  /\ ~users[2].is_suspended
  /\ users[2].email = BindingLink(2).claims.email
  /\ \E c \in webauthn_credentials : c.credential_uuid = users[2].credential_uuid
  /\ \A c \in webauthn_credentials : c.credential_uuid # users[1].credential_uuid

(***************************************************************************)
(* Finish requests that overlap, and the id text a client reports.         *)
(***************************************************************************)
\* The id of the device's credential as clients report it: a browser's
\* URL-safe text, or the text the store would hold.
EnrolIdTexts ==
  {BASE64_URL_SAFE_NO_PAD_encode(NewCredentialId),
   BASE64_STANDARD_encode(NewCredentialId)}

InitEnrol == InitBinding

NextEnrol ==
  \/ \E conn \in Connections :
       \E challenge_signature \in Presentable, registration_token \in Presentable :
         \E pk_credential \in RegisterPkCredentials(
                                EnrolIdTexts,
                                RegistrationChallengesFor(challenge_signature)) :
           /\ Cardinality(webauthn_credentials) + Cardinality(in_flight)
                < MaxCredentialRows
           /\ finish_passkey_registration_select(
                conn, challenge_signature, registration_token, pk_credential)
  \/ \E conn \in Connections : finish_passkey_registration_insert(conn)

SpecEnrol == InitEnrol /\ [][NextEnrol]_vars

\* C25: no user holds two Credential rows with the same credential id,
\* whatever Finish requests ran and however they overlapped.
C25_CredentialIdUniquePerUser ==
  \A a, b \in webauthn_credentials :
    (a.credential_uuid = b.credential_uuid /\ a.credential_id = b.credential_id)
      => a = b

(***************************************************************************)
(* The AdminCtx extractor of the administrator's routes.                   *)
(***************************************************************************)
\* The extractor deciding on the token's copy of the admin flag.
AdminCtx_from_claims(token) ==
  LET claims == authenticate_jwt(token)
  IN IF claims = {} THEN "LoginRequired"
     ELSE LET c == CHOOSE x \in claims : TRUE
          IN IF from_user_id(c.user_id) = {} THEN "UserDeleted"
             ELSE IF users[c.user_id].is_suspended THEN "UserSuspended"
             ELSE IF ~c.is_admin THEN "AdminRequired"
             ELSE ""

\* AdminCtx::from_request_parts: the middleware's claims, then the users
\* row.  An error name, or "" when the administrator is extracted.
AdminCtx(token) ==
  LET claims == authenticate_jwt(token)
  IN IF claims = {} THEN "LoginRequired"
     ELSE LET c == CHOOSE x \in claims : TRUE
          IN IF from_user_id(c.user_id) = {} THEN "UserDeleted"
             ELSE IF users[c.user_id].is_suspended THEN "UserSuspended"
             ELSE IF ~users[c.user_id].is_admin THEN "AdminRequired"
             ELSE ""

list_users(token) ==
  LET op == "list_users"
      request == [token |-> token]
  IN /\ IF AdminCtx(token) # ""
          THEN resp' = Err(op, request, AdminCtx(token))
          ELSE resp' = Ok(op, request, [users |-> {users[u] : u \in DOMAIN users}])
     /\ UNCHANGED <<entityVars, policyVars, authVars, oauthVars, now, rng>>

\* The access token each user's login returned at time 0.
AdminAccessToken(user_id) ==
  jwt_encode(access_session_key,
             [user_id |-> user_id, method |-> "passkey", iat |-> 0,
              exp |-> AccessTtl, email |-> User0(user_id).email,
              username |-> User0(user_id).username, name |-> User0(user_id).name,
              is_admin |-> User0(user_id).is_admin, webauthn_id |-> user_id,
              session_id |-> user_id])

AdminUserPayloads(user_id) ==
  [name : {users[user_id].name}, email : {users[user_id].email},
   username : {users[user_id].username}, is_suspended : BOOLEAN,
   is_admin : BOOLEAN]

\* Both users are logged in; the second user's row is still in the table or
\* was removed from it after the login (no route deletes a user).
InitAdmin ==
  /\ users \in {[id \in D |-> User0(id)] : D \in {Users, {1}}}
  /\ clients = [c \in Clients |-> Client0(c)]
  /\ permission_group_membership = {}
  /\ InitPolicy /\ InitOauth
  /\ webauthn_credentials = Credentials0
  /\ in_flight = {}
  /\ user_sessions =
       {new_session(u, u, u, u) : u \in Users}
  /\ issued = {AdminAccessToken(u) : u \in Users}
  /\ rotated = {}
  /\ now = 0
  /\ rng = 2
  /\ resp = NoResp

NextAdmin ==
  \/ \E token \in Presentable : list_users(token)
  \/ \E user_id \in DOMAIN users :
       \E payload \in AdminUserPayloads(user_id) : update_user(user_id, payload)
  \/ \E seconds \in {300, 3300} : Elapse(seconds)

SpecAdmin == InitAdmin /\ [][NextAdmin]_vars

\* The token is one the broker signed for a session and is not past its
\* expiry by more than the leeway.
AccessTokenLive(token) ==
  /\ token.key = access_session_key
  /\ now <= token.claims.exp + Leeway

\* C26: an admin-only operation answers from the users row as it is when
\* the request arrives: it is allowed only for a live token whose user
\* exists, is not suspended and has the admin flag in the store; for a live
\* token it answers UserDeleted when the row is gone, UserSuspended when the
\* user is suspended and AdminRequired when the stored flag is false,
\* whatever the token's is_admin says.
C26_AdminFromStore ==
  resp.op = "list_users" =>
    LET token == resp.request.token
        user_id == token.claims.user_id
    IN /\ resp.status = "ok" =>
            /\ AccessTokenLive(token)
            /\ user_id \in DOMAIN users
            /\ ~users[user_id].is_suspended
            /\ users[user_id].is_admin
       /\ AccessTokenLive(token) =>
            /\ user_id \notin DOMAIN users =>
                 resp = Err("list_users", resp.request, "UserDeleted")
            /\ (user_id \in DOMAIN users /\ users[user_id].is_suspended) =>
                 resp = Err("list_users", resp.request, "UserSuspended")
            /\ (/\ user_id \in DOMAIN users
                /\ ~users[user_id].is_suspended
                /\ ~users[user_id].is_admin) =>
                 resp = Err("list_users", resp.request, "AdminRequired")

\* C26 witness: the first user's admin flag was cleared after their login;
\* their token still says is_admin and is not expired, and the request is
\* refused with AdminRequired.
C26_Witness ==
  /\ resp.op = "list_users"
  /\ resp = Err("list_users", resp.request, "AdminRequired")
  /\ AccessTokenLive(resp.request.token)
  /\ resp.request.token.claims.is_admin
  /\ ~users[resp.request.token.claims.user_id].is_admin
  /\ now > 0

(***************************************************************************)
(* A session lives until logout deletes it.                                *)
(***************************************************************************)
InitLongLived == InitSignOut

NextLongLived ==
  \/ \E ms \in ClockReadings :
       \E pk_credential \in PkCredentials(ChallengesFor(LoginChallenge0)) :
         finish_passkey_login(LoginChallenge0, pk_credential, ms)
  \/ \E token \in Presentable : refresh_auth(token)
  \/ \E token \in Presentable : logout_current_session(token)
  \* the lifetime of an access token passes
  \/ Elapse(AccessTtl + Leeway + 1)

SpecLongLived == InitLongLived /\ [][NextLongLived]_vars

\* The refresh token carries the current secret of a session in the store.
CurrentIn(token, sessions) ==
  /\ token.key = refresh_session_key
  /\ \E x \in sessions :
       /\ x.session_id = token.claims.session_id
       /\ x.refresh_hash = hash_password(token.claims.refresh_token)

\* C27: a refresh exchange presenting the current secret of a stored
\* session succeeds at any age of the tokens; one presenting anything else
\* fails with SessionExpired; a logout leaves no issued refresh token of the
\* session current, and a refresh token that is not current never becomes
\* current again.
C27_LifetimeStep ==
  /\ resp'.op = "refresh_auth" =>
       IF CurrentIn(resp'.request.refresh_token, user_sessions)
         THEN /\ resp'.status = "ok"
              /\ CurrentIn(resp'.body.refresh_token, user_sessions')
         ELSE resp' = Err("refresh_auth", resp'.request, "SessionExpired")
  /\ (user_sessions' # user_sessions /\ resp'.op = "logout_current_session") =>
       \A t \in issued :
         (/\ t.key = refresh_session_key
          /\ t.claims.session_id = resp'.request.access_token.claims.session_id)
           => ~CurrentIn(t, user_sessions')
  /\ \A t \in issued :
       ~CurrentIn(t, user_sessions) => ~CurrentIn(t, user_sessions')

C27_SessionValidUntilDeleted == [][C27_LifetimeStep]_vars

\* C27 witness: the refresh token issued at login is exchanged after the
\* access token issued with it has expired, and the exchange succeeds.
C27_Witness ==
  /\ resp.op = "refresh_auth"
  /\ resp.status = "ok"
  /\ resp.request.refresh_token = RefreshToken0
  /\ now > AccessToken0.claims.exp + Leeway
  /\ authenticate_jwt(AccessToken0) = {}

(***************************************************************************)
(* What the store keeps of a refresh secret.                               *)
(***************************************************************************)
InitSecret == InitSignOut

NextSecret ==
  \/ \E ms \in ClockReadings :
       \E pk_credential \in PkCredentials(ChallengesFor(LoginChallenge0)) :
         finish_passkey_login(LoginChallenge0, pk_credential, ms)
  \/ \E token \in Presentable : refresh_auth(token)
  \/ \E token \in Presentable : logout_current_session(token)
  \/ \E payload \in SuspensionPayloads(LoggedInUser.id) :
       update_user(LoggedInUser.id, payload)

SpecSecret == InitSecret /\ [][NextSecret]_vars

\* The raw secrets drawn so far: sample_string's results are the draws.
RawSecrets == 0..MaxRng

\* C28, on states: the refresh_hash of every Session row is the hash of a
\* secret that was drawn; it verifies that secret alone, and no refresh
\* token issued for the session carries a later one.
C28_OnlyHashStored ==
  \A x \in user_sessions :
    \E k \in 1..rng :
      /\ x.refresh_hash = hash_password(k)
      /\ verify_password(k, x.refresh_hash)
      /\ \A j \in RawSecrets \ {k} : ~verify_password(j, x.refresh_hash)
      /\ \A t \in issued :
           (t.key = refresh_session_key /\ t.claims.session_id = x.session_id)
             => t.claims.refresh_token <= k

\* C28, on steps: a step that writes a Session's hash is a creation or a
\* rotation that drew a new secret; the hash it writes verifies that secret
\* and no earlier one, and a successful response carries the secret in its
\* refresh token and nowhere else.
C28_SecretStep ==
  \A x \in user_sessions' \ user_sessions :
    /\ rng' = rng + 1
    /\ resp'.op \in {"finish_passkey_login", "refresh_auth"}
    /\ verify_password(rng', x.refresh_hash)
    /\ \A j \in 0..rng : ~verify_password(j, x.refresh_hash)
    /\ resp'.status = "ok" =>
         /\ resp'.body.refresh_token.claims =
              [session_id |-> x.session_id, refresh_token |-> rng']
         /\ "refresh_token" \notin DOMAIN resp'.body.access_token.claims
         /\ DOMAIN resp'.body \subseteq
              {"access_token", "refresh_token", "session_id", "user"}

C28_RawSecretNeverPersisted == []C28_OnlyHashStored /\ [][C28_SecretStep]_vars

\* C28 witness: an exchange rotated the secret; the stored hash verifies
\* the secret of the refresh token returned and not the one presented.
C28_Witness ==
  /\ resp.op = "refresh_auth"
  /\ resp.status = "ok"
  /\ \E x \in user_sessions :
       /\ x.session_id = resp.body.refresh_token.claims.session_id
       /\ verify_password(resp.body.refresh_token.claims.refresh_token, x.refresh_hash)
       /\ ~verify_password(resp.request.refresh_token.claims.refresh_token,
                           x.refresh_hash)

(***************************************************************************)
(* Userinfo decides on the store as it is when it is called.               *)
(***************************************************************************)
InitRevalidate == InitRedeem

NextRevalidate ==
  \/ \E token \in AccessTokens, payload \in ServedPayloads :
       oauth_authorize_approve(token, payload)
  \/ \E payload \in SuspensionPayloads(LoggedInUser.id) :
       update_user(LoggedInUser.id, payload)
  \/ \E payload \in UserinfoClientPayloads : update_client("c1", payload)
  \/ \E granted \in BOOLEAN :
       update_user_permission_override("c1", LoggedInUser.id, granted)
  \/ delete_user_permission_override("c1", LoggedInUser.id)
  \/ add_group_member(1, LoggedInUser.id)
  \/ remove_group_member(1, LoggedInUser.id)
  \/ \E access_token \in KnownGrants \cup {UnknownGrant} :
       oauth_userinfo(access_token, "none")
  \* the lifetime of an access-token grant passes
  \/ Elapse(GrantTtl)

SpecRevalidate == InitRevalidate /\ [][NextRevalidate]_vars

\* The grant is in the cache and not expired; its user exists and is not
\* suspended; its client exists and is not disabled; the access decision
\* read from the tables is true.
GrantHolds(access_token) ==
  \E e \in redis :
    /\ e.prefix = "oauth_access_token"
    /\ e.token = access_token
    /\ now < e.expires_at
    /\ e.value.user_id \in DOMAIN users
    /\ ~users[e.value.user_id].is_suspended
    /\ e.value.client_id \in DOMAIN clients
    /\ ~clients[e.value.client_id].is_disabled
    /\ AccessDecision(e.value.user_id, e.value.client_id)

\* C29: userinfo returns an identity token only if, when it is called, the
\* grant resolves, its user exists and is not suspended, its client exists
\* and is not disabled and the access decision is true; a grant for which
\* any of these has stopped holding is refused.
C29_UserinfoRevalidates ==
  resp.op = "oauth_userinfo" =>
    /\ resp.status = "ok" => GrantHolds(resp.request.access_token)
    /\ ~GrantHolds(resp.request.access_token) => resp.status = "err"

\* C29 witness: a grant minted by an approval while everything held is
\* refused after the access decision turned false; the grant is still in
\* the cache, its user is not suspended and its client is not disabled.
C29_Witness ==
  /\ resp.op = "oauth_userinfo"
  /\ resp.status = "err"
  /\ \E e \in redis :
       /\ e.prefix = "oauth_access_token"
       /\ e.token = resp.request.access_token
       /\ now < e.expires_at
       /\ ~users[e.value.user_id].is_suspended
       /\ ~clients[e.value.client_id].is_disabled
       /\ ~AccessDecision(e.value.user_id, e.value.client_id)

(***************************************************************************)
(* The role set against a fold over sets.                                  *)
(***************************************************************************)
\* One override applied to a set of roles.
RefApply(roles, role_override) ==
  IF role_override.granted THEN roles \cup {role_override.role}
  ELSE roles \ {role_override.role}

RECURSIVE RefFold(_, _)
RefFold(roles, overrides) ==
  IF overrides = <<>> THEN roles
  ELSE RefFold(RefApply(roles, Head(overrides)), Tail(overrides))

\* The orders of a set of rows that ascend in override_priority.
AscendingOrders(rows) ==
  {p \in SeqPermutations(rows) :
     \A i, j \in 1..Len(p) :
       i < j => p[i].override_priority <= p[j].override_priority}

\* The group-scoped role overrides of the client whose group is one of the
\* user's groups.
AppliedGroupRoleOverrides(user_id, client_id) ==
  {o \in group_app_role_override :
     /\ o.client_id = client_id
     /\ [group_id |-> o.group_id, user_id |-> user_id]
          \in permission_group_membership}

\* C30: the resolved roles are those of the fold that starts from the empty
\* set, applies the group-scoped overrides of the user's groups in an
\* ascending order of priority and then the user-scoped overrides; no role
\* is listed twice, and every listed role was granted by an applied override.
C30_RolesEqualReferenceFold ==
  resp.op = "get_user_roles" =>
    LET group_rows == AppliedGroupRoleOverrides(resp.user, resp.client)
        user_rows == UserRoleOverridesOf(resp.user, resp.client)
    IN /\ \E g \in AscendingOrders(group_rows), u \in SeqPermutations(user_rows) :
            Range(resp.result) = RefFold(RefFold({}, g), u)
       /\ Cardinality(Range(resp.result)) = Len(resp.result)
       /\ \A role \in Range(resp.result) :
            \E o \in group_rows \cup user_rows : o.role = role /\ o.granted

\* C30 witness: a group override of higher priority removed a role that one
\* of lower priority had added, no user override names that role, and the
\* resolved set holds another role.
C30_Witness ==
  /\ resp.op = "get_user_roles"
  /\ resp.result # <<>>
  /\ \E lo, hi \in AppliedGroupRoleOverrides(resp.user, resp.client) :
       /\ lo.role = hi.role
       /\ lo.override_priority < hi.override_priority
       /\ lo.granted /\ ~hi.granted
       /\ lo.role \notin Range(resp.result)
       /\ \A o \in UserRoleOverridesOf(resp.user, resp.client) : o.role # lo.role


(***************************************************************************)
(* Approve: the order of validation, the authorization upsert and the      *)
(* minting of artifacts, with the store and cache calls able to fail.      *)
(***************************************************************************)
\* The calls of Approve that answer InternalServerError when they fail, in
\* the order the handler makes them.
ApproveFaults == {"get_groups", "authorize_for_user", "save_to_code", "save_to_token", "create_id_token"}

\* Approve with one failing call: the writes made before the failing call
\* stay, the answer is InternalServerError.
oauth_authorize_approve_failing(token, payload, fault) ==
  LET op == "oauth_authorize_approve"
      request == [access_token |-> token, payload |-> payload]
      user == users[Unwrap(authenticate_jwt(token)).user_id]
      client == Unwrap(from_client_id(payload.client_id))
      user_groups == get_groups(user.id)
      response_types == split_whitespace(payload.response_type)
      code == sample_string("code")
      with_code ==
        IF SeqContains(response_types, "code")
          THEN set_ex(redis, "oauth_code", code,
                      [user_id |-> user.id, client_id |-> client.client_id,
                       nonce |-> payload.nonce,
                       redirect_uri |-> payload.redirect_uri], CodeTtl)
          ELSE redis
      with_token ==
        IF SeqContains(response_types, "token")
          THEN set_ex(with_code, "oauth_access_token", sample_string("access_token"),
                      [user_id |-> user.id, client_id |-> client.client_id,
                       nonce |-> payload.nonce], GrantTtl)
          ELSE with_code
  IN /\ UserExtractor(token) = ""
     /\ from_client_id(payload.client_id) # None
     /\ resp' = Err(op, request, "InternalServerError")
     /\ IF fault = "get_groups"
          THEN UNCHANGED <<oauthVars, rng>>
          ELSE /\ \E fetched \in fetch_group_permissions_for_client(client.client_id) :
                    validate_oauth_authorization(user, payload, client, user_groups, fetched) = None
               /\ rng < MaxRng
               /\ rng' = rng + 1
               /\ CASE fault = "authorize_for_user" ->
                         UNCHANGED oauthVars
                    [] fault = "save_to_code" ->
                         /\ SeqContains(response_types, "code")
                         /\ user_app_authorizations' = authorize_for_user(user.id, client.client_id)
                         /\ UNCHANGED redis
                    [] fault = "save_to_token" ->
                         /\ SeqContains(response_types, "token")
                         /\ user_app_authorizations' = authorize_for_user(user.id, client.client_id)
                         /\ redis' = with_code
                    [] fault = "create_id_token" ->
                         /\ SeqContains(response_types, "id_token")
                         /\ user_app_authorizations' = authorize_for_user(user.id, client.client_id)
                         /\ redis' = with_token
     /\ UNCHANGED <<entityVars, policyVars, authVars, now>>

ApprovePayloads ==
  [scope : {"openid"}, response_type : {"code", "code token id_token", "password"},
   client_id : {"c1"}, redirect_uri : {"https://app/cb", "https://other/cb"},
   state : {None}, response_mode : {None}, nonce : {None}]

InitApprove == InitSuspension

NextApprove ==
  \/ \E token \in AccessTokens, payload \in ApprovePayloads :
       oauth_authorize_approve(token, payload)
  \/ \E token \in AccessTokens, payload \in ApprovePayloads, fault \in ApproveFaults :
       oauth_authorize_approve_failing(token, payload, fault)
  \/ \E token \in AccessTokens, payload \in ApprovePayloads :
       oauth_authorize_preview(token, payload)
  \/ revoke_app_authorization(LoggedInUser.id, "c1")
  \/ Tick

SpecApprove == InitApprove /\ [][NextApprove]_vars

\* The request passes the caller check, names a known client and passes the
\* authorization validation.
ApproveValidates(token, payload) ==
  /\ UserExtractor(token) = ""
  /\ from_client_id(payload.client_id) # None
  /\ \E fetched \in fetch_group_permissions_for_client(payload.client_id) :
       validate_oauth_authorization(users[Unwrap(authenticate_jwt(token)).user_id], payload, Unwrap(from_client_id(payload.client_id)), get_groups(Unwrap(authenticate_jwt(token)).user_id), fetched) = None

\* The pair's record as the upsert leaves it: not revoked, used now.
UpsertedNow(rows, user_id, client_id) ==
  \E a \in rows :
    /\ a.user_id = user_id
    /\ a.client_id = client_id
    /\ ~a.revoked
    /\ a.last_used = now

\* C31: the authorization record of (user, client) is written only by an
\* Approve whose validation succeeded, and it is written before any artifact
\* is minted: a step of Approve or Preview that changes the records or the
\* cache is an Approve of a validated request, after it the pair's record is
\* not revoked and its last-used time is the current time, and no other
\* pair's record changed; a successful Approve leaves the record so; an
\* Approve whose validation fails writes no record and stores no grant; a
\* Preview writes nothing.
C31_UpsertStep ==
  LET op == resp'.op
      token == resp'.request.access_token
      payload == resp'.request.payload
      user_id == Unwrap(authenticate_jwt(token)).user_id
  IN /\ op = "oauth_authorize_preview" =>
          UNCHANGED <<entityVars, policyVars, authVars, oauthVars, now, rng>>
     /\ op = "oauth_authorize_approve" =>
          /\ ~ApproveValidates(token, payload) => UNCHANGED oauthVars
          /\ resp'.status = "ok" =>
               UpsertedNow(user_app_authorizations', user_id, payload.client_id)
          /\ (user_app_authorizations' # user_app_authorizations \/ redis' # redis) =>
               /\ ApproveValidates(token, payload)
               /\ UpsertedNow(user_app_authorizations', user_id, payload.client_id)
               /\ \A a \in user_app_authorizations :
                    (a.user_id # user_id \/ a.client_id # payload.client_id)
                      => a \in user_app_authorizations'
     /\ op \notin {"oauth_authorize_approve", "revoke_app_authorization"} =>
          UNCHANGED oauthVars

C31_UpsertAfterValidationBeforeMinting == [][C31_UpsertStep]_vars

\* C31 witness: an Approve whose code could not be stored answered
\* InternalServerError after the upsert: the pair's record is there, used
\* now and not revoked, and the cache holds nothing.
C31_Witness ==
  /\ resp.op = "oauth_authorize_approve"
  /\ resp.status = "err"
  /\ resp.err = "InternalServerError"
  /\ now > 0
  /\ redis = {}
  /\ UpsertedNow(user_app_authorizations, LoggedInUser.id, "c1")


(***************************************************************************)
(* Login Finish and the Session Store.                                     *)
(***************************************************************************)
InitLogin == InitSession

NextLogin ==
  \/ start_passkey_login
  \/ \E token \in Presentable, ms \in ClockReadings :
       \E pk_credential \in PkCredentials(ChallengesFor(token)) :
         finish_passkey_login(token, pk_credential, ms)
  \/ \E user_id \in Users :
       \E payload \in SuspensionPayloads(user_id) : update_user(user_id, payload)
  \/ Tick

SpecLogin == InitLogin /\ [][NextLogin]_vars

\* The session is owned by the user whose correlation id the device response
\* carries and records the stored credential of that user that signed.
SessionOfResponse(session, pk_credential) ==
  /\ \E u \in DOMAIN users :
       /\ users[u].credential_uuid = pk_credential.user_handle
       /\ session.user_id = u
  /\ \E c \in webauthn_credentials :
       /\ c.credential_uuid = pk_credential.user_handle
       /\ c.credential_id = BASE64_STANDARD_encode(pk_credential.cred_id)
       /\ session.webauthn_id = c.id

\* C32: a Login Finish that succeeds adds exactly one session to the Session
\* Store: its owner is the user resolved from the correlation id in the
\* device response, its credential id is the matched credential's, and the
\* access token and the refresh token returned both carry its id; a Login
\* Finish that answers an error leaves the Session Store unchanged.
C32_LoginStep ==
  resp'.op = "finish_passkey_login" =>
    /\ resp'.status = "err" => user_sessions' = user_sessions
    /\ resp'.status = "ok" =>
         \E session \in user_sessions' \ user_sessions :
           /\ user_sessions' = user_sessions \cup {session}
           /\ \A x \in user_sessions : x.session_id # session.session_id
           /\ SessionOfResponse(session, resp'.request.pk_credential)
           /\ resp'.body.access_token.claims.session_id = session.session_id
           /\ resp'.body.refresh_token.claims.session_id = session.session_id
           /\ resp'.body.access_token.claims.user_id = session.user_id

C32_FinishCreatesOneSession == [][C32_LoginStep]_vars

\* C32 witness: the second user logged in while the first user's session was
\* stored; the store holds both, and the tokens returned name the new one.
C32_Witness ==
  /\ resp.op = "finish_passkey_login"
  /\ resp.status = "ok"
  /\ Cardinality(user_sessions) = 2
  /\ \E x \in user_sessions :
       /\ x.session_id = resp.body.refresh_token.claims.session_id
       /\ x.user_id = resp.body.user
       /\ \E y \in user_sessions : y.user_id # x.user_id


(***************************************************************************)
(* The refresh exchange statement by statement: the SELECT of the session  *)
(* and the hash check, then the UPDATE of the hash and the SELECT of the   *)
(* user.  The statements run on the pool, outside any transaction, so the  *)
(* statements of other requests run between them.                          *)
(***************************************************************************)
\* from_jwt, from_session_id and verify_password: the request goes on with
\* the session row it read.
refresh_auth_select(conn, token) ==
  LET op == "refresh_auth"
      request == [refresh_token |-> token]
      claims_opt == IdentityRefreshClaims_from_jwt(token)
      refresh_claims == CHOOSE c \in claims_opt : TRUE
      session_opt == from_session_id(refresh_claims.session_id)
      session == CHOOSE x \in session_opt : TRUE
  IN /\ \A f \in in_flight : f.conn # conn
     /\ IF \/ claims_opt = {}
           \/ session_opt = {}
           \/ ~verify_password(refresh_claims.refresh_token, session.refresh_hash)
          THEN /\ resp' = Err(op, request, "SessionExpired")
               /\ UNCHANGED in_flight
          ELSE /\ in_flight' = in_flight \cup
                     {[conn |-> conn, request |-> request, session |-> session]}
               /\ resp' = NoResp
     /\ UNCHANGED <<entityVars, policyVars, oauthVars, webauthn_credentials,
                    user_sessions, issued, rotated, now, rng>>

\* refresh_session (UPDATE ... WHERE session_id, whatever number of rows it
\* changes), from_user_id, the suspension check and the answer.
refresh_auth_update(conn) ==
  LET op == "refresh_auth"
  IN /\ rng < MaxRng
     /\ \E f \in in_flight :
          /\ f.conn = conn
          /\ in_flight' = in_flight \ {f}
          /\ user_sessions' = refresh_session(f.session, rng + 1)
          /\ rng' = rng + 1
          /\ LET user_opt == from_user_id(f.session.user_id)
                 user == CHOOSE u \in user_opt : TRUE
                 access_token ==
                   jwt_encode(access_session_key,
                              create_from_passkey(user, f.session.webauthn_id,
                                                  f.session.session_id))
                 jwt_refresh_token ==
                   jwt_encode(refresh_session_key,
                              [session_id |-> f.session.session_id,
                               refresh_token |-> rng + 1])
             IN IF user_opt = {}
                  THEN /\ resp' = Err(op, f.request, "UserDeleted")
                       /\ UNCHANGED <<issued, rotated>>
                ELSE IF user.is_suspended
                  THEN /\ resp' = Err(op, f.request, "UserSuspended")
                       /\ UNCHANGED <<issued, rotated>>
                ELSE /\ issued' = issued \cup {access_token, jwt_refresh_token}
                     /\ rotated' = rotated \cup {f.request.refresh_token}
                     /\ resp' = Ok(op, f.request,
                                   [access_token |-> access_token,
                                    refresh_token |-> jwt_refresh_token,
                                    user |-> user.id])
     /\ UNCHANGED <<entityVars, policyVars, oauthVars, webauthn_credentials, now>>

InitExchange == InitSignOut

NextExchange ==
  \/ \E conn \in Connections, token \in Presentable : refresh_auth_select(conn, token)
  \/ \E conn \in Connections : refresh_auth_update(conn)
  \/ \E token \in Presentable : logout_current_session(token)
  \/ \E payload \in SuspensionPayloads(LoggedInUser.id) :
       update_user(LoggedInUser.id, payload)

SpecExchange == InitExchange /\ [][NextExchange]_vars

\* C33: of the refresh exchanges that present the same refresh token at most
\* one succeeds: an exchange answers success only for a token that no
\* earlier exchange was answered success for.
C33_SameTokenStep ==
  (resp'.op = "refresh_auth" /\ resp'.status = "ok") =>
    resp'.request.refresh_token \notin rotated

C33_SameTokenSucceedsOnce == [][C33_SameTokenStep]_vars

\* C34: when the refresh exchange answers success, a session with the id the
\* returned tokens carry is in the Session Store.
C34_SuccessNamesStoredSession ==
  (resp.op = "refresh_auth" /\ resp.status = "ok") =>
    from_session_id(resp.body.refresh_token.claims.session_id) # {}

\* C35: a refresh exchange that answers an error leaves the stored refresh
\* hashes as they were.
C35_ErrorStep ==
  (resp'.op = "refresh_auth" /\ resp'.status = "err") =>
    user_sessions' = user_sessions

C35_ErrorKeepsHash == [][C35_ErrorStep]_vars


(***************************************************************************)
(* Codes outstanding when the authorization is revoked or the user is      *)
(* suspended.                                                              *)
(***************************************************************************)
\* The code an Approve at time 0 issued for (LoggedInUser, c1).
RevokedCode == [n |-> 2, use |-> "code"]

\* The state after that Approve and a revocation of the pair's record: the
\* record is revoked, the code is still in the cache.
InitOutstanding ==
  /\ InitEntities
  /\ InitPolicy
  /\ InitLoggedIn
  /\ rng = 2
  /\ user_app_authorizations =
       {[user_id |-> LoggedInUser.id, client_id |-> "c1",
         sub |-> [n |-> 2, use |-> "sub"], last_used |-> 0, revoked |-> TRUE]}
  /\ redis =
       {[prefix |-> "oauth_code", token |-> RevokedCode,
         value |-> [user_id |-> LoggedInUser.id, client_id |-> "c1",
                    nonce |-> None, redirect_uri |-> "https://app/cb"],
         expires_at |-> CodeTtl]}

NextOutstanding ==
  \/ \E token \in AccessTokens, payload \in ServedPayloads :
       oauth_authorize_approve(token, payload)
  \/ \E basic_auth \in {Some(<<"c1", "s1">>), Some(<<"c1", "s2">>)}, payload \in ReplayTokenPayloads :
       oauth_token(basic_auth, payload)
  \/ revoke_app_authorization(LoggedInUser.id, "c1")
  \/ \E payload \in SuspensionPayloads(LoggedInUser.id) :
       update_user(LoggedInUser.id, payload)
  \/ Tick

SpecOutstanding == InitOutstanding /\ [][NextOutstanding]_vars

C37_SuspendedStep ==
  (/\ resp'.op = "oauth_token"
   /\ \E e \in CodeEntries(redis) :
        /\ resp'.request.payload.code = Some(e.token)
        /\ e.value.user_id \in DOMAIN users
        /\ users[e.value.user_id].is_suspended) =>
    /\ resp'.status = "err"
    /\ redis' = redis

C37_SuspendedUserRedeemsNothing == [][C37_SuspendedStep]_vars


(***************************************************************************)
(* The cache entries and the authorization records they belong to.         *)
(***************************************************************************)
InitGrants == InitSuspension

NextGrants ==
  \/ \E token \in AccessTokens, payload \in ApprovePayloads :
       oauth_authorize_approve(token, payload)
  \/ \E token \in AccessTokens, payload \in ApprovePayloads, fault \in ApproveFaults :
       oauth_authorize_approve_failing(token, payload, fault)
  \/ \E payload \in ReplayTokenPayloads : oauth_token(Some(<<"c1", "s1">>), payload)
  \/ revoke_app_authorization(LoggedInUser.id, "c1")
  \/ Tick

SpecGrants == InitGrants /\ [][NextGrants]_vars

GrantPrefixes == {"oauth_code", "oauth_access_token", "oauth_refresh_token"}

\* C38: for every code, access-token grant and refresh-token grant in the
\* cache, expired or not, an Authorization record of the entry's user and
\* client is stored.
C38_GrantsHaveAuthorization ==
  \A e \in redis :
    e.prefix \in GrantPrefixes =>
      \E a \in user_app_authorizations :
        /\ a.user_id = e.value.user_id
        /\ a.client_id = e.value.client_id

\* C38 witness: a code, an access-token grant and a refresh-token grant are
\* in the cache and the pair's record, revoked since, is still stored.
C38_Witness ==
  /\ \A prefix \in GrantPrefixes : \E e \in redis : e.prefix = prefix
  /\ \E a \in user_app_authorizations :
       /\ a.user_id = LoggedInUser.id
       /\ a.client_id = "c1"
       /\ a.revoked


(***************************************************************************)
(* The bulk replacement and the rows of other clients.  Every entry of the *)
(* request body carries a client_id of its own.                            *)
(***************************************************************************)
\* Entries for the client of the path and entries that name another client.
FramePermissionEntries ==
  <<[group_id |-> 2, client_id |-> "c1", granted |-> TRUE, override_priority |-> 1],
    [group_id |-> 1, client_id |-> "c2", granted |-> FALSE, override_priority |-> 3],
    [group_id |-> 1, client_id |-> "c1", granted |-> TRUE, override_priority |-> 0]>>

FrameRoleEntries ==
  <<[group_id |-> 1, client_id |-> "c1", role |-> "editor", granted |-> TRUE, override_priority |-> 1],
    [group_id |-> 1, client_id |-> "c2", role |-> "admin", granted |-> TRUE, override_priority |-> 2]>>

\* The request bodies: every selection of the entries, in their order.
FramePayloads(entries) ==
  {s \in UNION {[1..n -> Range(entries)] : n \in 0..Len(entries)} :
     \A i, j \in DOMAIN s :
       i < j => \E k, l \in DOMAIN entries : k < l /\ entries[k] = s[i] /\ entries[l] = s[j]}

InitFrame == InitBulk

NextFrame ==
  \/ \E client_id \in {"c1", "c9"}, overrides \in FramePayloads(FramePermissionEntries), fault \in BOOLEAN :
       update_group_overrides("group_app_permission_override", client_id, overrides, fault)
  \/ \E client_id \in {"c1", "c9"}, overrides \in FramePayloads(FrameRoleEntries), fault \in BOOLEAN :
       update_group_overrides("group_app_role_override", client_id, overrides, fault)
  \/ \E fault \in BOOLEAN : transaction_statement(fault)

SpecFrame == InitFrame /\ [][NextFrame]_vars

\* C39: a bulk replacement for a client that succeeds leaves the group
\* overrides of every other client as they were, and the client's overrides
\* afterwards are exactly the entries of the request.
C39_FrameStep ==
  (transaction.status = "open" /\ transaction' = NoTransaction /\ resp'.status = "ok") =>
    LET t == transaction
        after == IF t.table = "group_app_permission_override" THEN group_app_permission_override' ELSE group_app_role_override'
    IN /\ {x \in after : x.client_id # t.client_id} = {x \in t.before : x.client_id # t.client_id}
       /\ {x \in after : x.client_id = t.client_id} = Range(t.request.overrides)

C39_ReplaceTouchesOneClient == [][C39_FrameStep]_vars


(***************************************************************************)
(* Access tokens after the logout of their session.                        *)
(***************************************************************************)
InitDetached == InitSignOut

NextDetached ==
  \/ \E token \in Presentable : logout_current_session(token)
  \/ \E token \in Presentable : refresh_auth(token)
  \/ \E token \in Presentable, payload \in ServedPayloads :
       oauth_authorize_preview(token, payload)
  \/ \E token \in Presentable, payload \in ServedPayloads :
       oauth_authorize_approve(token, payload)
  \/ Elapse(AccessTtl \div 2)
  \/ Elapse(AccessTtl + Leeway + 1)

SpecDetached == InitDetached /\ [][NextDetached]_vars

\* The operations behind the access-token extractor that these requests reach.
AccessTokenOps ==
  {"oauth_authorize_preview", "oauth_authorize_approve", "logout_current_session"}

\* C40: an access token is accepted by every access-token-protected
\* operation, Approve included, for as long as it has not expired and its
\* user exists and is not suspended, whether or not the session it was
\* issued against is still in the Session Store.
C40_AccessTokenOutlivesSession ==
  resp.op \in AccessTokenOps =>
    LET token == resp.request.access_token
    IN (/\ token.key = access_session_key
        /\ now <= token.claims.exp
        /\ token.claims.user_id \in DOMAIN users
        /\ ~users[token.claims.user_id].is_suspended) =>
         resp.status = "ok"

\* C40 witness: an Approve succeeded, some time after the login, with an
\* access token whose session is no longer stored.
C40_Witness ==
  /\ resp.op = "oauth_authorize_approve"
  /\ resp.status = "ok"
  /\ now > 0
  /\ from_session_id(resp.request.access_token.claims.session_id) = {}

====
